---- MODULE Spec2Model ----
(***************************************************************************)
(* Maintenance lifecycle of Fairwinds: status classification of a record,  *)
(* expansion of a recurring instruction into occurrence dates, and the     *)
(* create / update / mark-completed flows of MaintenanceForm against the   *)
(* record store.                                                           *)
(*                                                                         *)
(* Time is a count of ticks since 1970-01-01T00:00Z, TicksPerDay ticks to  *)
(* a day.  A Date object is its UTC tick count; the local-time getters and *)
(* setters of Date shift by the zone offset tz (local = UTC + tz).         *)
(***************************************************************************)
EXTENDS Integers, Sequences, FiniteSets, TLC

VARIABLES
  now,            \* the platform clock, new Date()
  tz,             \* offset of the browser's local zone from UTC, in ticks
  formData,       \* MaintenanceForm state: the form fields
  baseDate,       \* createRecurringRecords: new Date(formData.date)
  endDate,        \* createRecurringRecords: new Date(formData.recurringEndDate)
  currentDate,    \* createRecurringRecords: loop variable
  futureDates,    \* createRecurringRecords: dates generated by the loop
  recordsToCreate,\* createRecurringRecords: futureDates.slice(0, 10)
  xpc,            \* position inside createRecurringRecords
  store,          \* the record store: MaintenanceRecord items, id = index
  maintenanceRecord, \* MaintenanceForm prop: the record being edited, or none
  completeMode,   \* MaintenanceForm prop
  photos,         \* MaintenanceForm state: S3 keys of the photos
  isSubmitting,   \* MaintenanceForm state
  error,          \* MaintenanceForm state: error message or null
  pc,             \* position of handleSubmit
  recordData,     \* handleSubmit: the record data of the write in flight
  parentId,       \* createRecurringRecords argument
  childIdx,       \* createRecurringRecords: index of the child write in flight
  outcome,        \* how the last handleSubmit ended
  parentOk,       \* the last parent create resolved with data
  attempted,      \* indices of recordsToCreate whose write was issued
  failures,       \* child creates that resolved with errors so far
  response,       \* how the store answered the last write of handleSubmit
  view,           \* what a read-side page last rendered, and when
  sessions,       \* how many times maintenance/new has been opened on a record
  completions,    \* per record id, the mark-completed updates the store applied
  peer,           \* a second MaintenanceForm, in another tab, on the same store
  bucket,         \* the S3 bucket: the keys whose object is stored
  issued,         \* how many keys uploadToS3 has handed out to the form
  removed,        \* the keys that handleDeletePhoto has taken off a photo list
  handlers        \* the photo handlers started on the form; those at an await
                  \* hold the photos of the render they were called in

----------------------------------------------------------------------------
(* Bounds of the model *)

TicksPerDay == 4

\* Most child creates that resolve with errors in one createRecord.
MaxFailures == 2

\* Most iterations of the date loop of createRecurringRecords.
MaxIterations == 400

----------------------------------------------------------------------------
(* Date: the proleptic Gregorian calendar as the Date object computes it *)

\* Day number of year y, month m (1..12), day 1, plus d - 1 days.
DaysFromCivil(y, m, d) ==
  LET yy  == IF m <= 2 THEN y - 1 ELSE y
      era == yy \div 400
      yoe == yy - era * 400
      mp  == IF m > 2 THEN m - 3 ELSE m + 9
      doy == (153 * mp + 2) \div 5 + d - 1
      doe == yoe * 365 + yoe \div 4 - yoe \div 100 + doy
  IN  era * 146097 + doe - 719468

\* MakeDay(year, month, date): month is 0-based and may lie outside 0..11,
\* date may lie outside the month; both overflow into the following
\* months, never clamp.
MakeDay(y, m0, d) ==
  DaysFromCivil(y + (m0 \div 12), (m0 % 12) + 1, 1) + d - 1

\* Year, 0-based month and day of month of a day number.
CivilFromDays(z) ==
  LET zz  == z + 719468
      era == zz \div 146097
      doe == zz - era * 146097
      yoe == (doe - doe \div 1460 + doe \div 36524 - doe \div 146096) \div 365
      doy == doe - (365 * yoe + yoe \div 4 - yoe \div 100)
      mp  == (5 * doy + 2) \div 153
      d   == doy - (153 * mp + 2) \div 5 + 1
      m   == IF mp < 10 THEN mp + 3 ELSE mp - 9
      y   == yoe + era * 400 + (IF m <= 2 THEN 1 ELSE 0)
  IN  [y |-> y, m0 |-> m - 1, d |-> d]

\* A form date string "YYYY-MM-DD" is the tuple <<YYYY, MM, DD>>; the empty
\* string is NoDate.
NoDate == <<>>

\* new Date("YYYY-MM-DD"): a date-only string is midnight UTC of that day.
ParseDate(s) == MakeDay(s[1], s[2] - 1, s[3]) * TicksPerDay

\* date.toISOString().split('T')[0]: the UTC calendar day of a Date.
ToISODate(t) ==
  LET c == CivilFromDays(t \div TicksPerDay) IN <<c.y, c.m0 + 1, c.d>>

\* Local-time getters.
LocalDay(t, z)    == (t + z) \div TicksPerDay
LocalTime(t, z)   == (t + z) % TicksPerDay
GetFullYear(t, z) == CivilFromDays(LocalDay(t, z)).y
GetMonth(t, z)    == CivilFromDays(LocalDay(t, z)).m0
GetDate(t, z)     == CivilFromDays(LocalDay(t, z)).d

\* Local-time setters: the other local fields are kept, the result is
\* renormalised by MakeDay.
SetDate(t, z, d) ==
  MakeDay(GetFullYear(t, z), GetMonth(t, z), d) * TicksPerDay + LocalTime(t, z) - z
SetMonth(t, z, m0) ==
  MakeDay(GetFullYear(t, z), m0, GetDate(t, z)) * TicksPerDay + LocalTime(t, z) - z
SetFullYear(t, z, y) ==
  MakeDay(y, GetMonth(t, z), GetDate(t, z)) * TicksPerDay + LocalTime(t, z) - z
\* date.setHours(0, 0, 0, 0): local midnight of the same local day.
SetHoursZero(t, z) == LocalDay(t, z) * TicksPerDay - z

----------------------------------------------------------------------------
(* Strings that the code inspects character by character are sequences of  *)
(* one-character strings.                                                  *)

UpperCase == <<"A","B","C","D","E","F","G","H","I","J","K","L","M",
               "N","O","P","Q","R","S","T","U","V","W","X","Y","Z">>
LowerCase == <<"a","b","c","d","e","f","g","h","i","j","k","l","m",
               "n","o","p","q","r","s","t","u","v","w","x","y","z">>

ToLowerChar(c) ==
  IF \E i \in 1..26 : UpperCase[i] = c
  THEN LowerCase[CHOOSE i \in 1..26 : UpperCase[i] = c]
  ELSE c

\* s.toLowerCase()
ToLowerCase(s) == [i \in 1..Len(s) |-> ToLowerChar(s[i])]

\* s.includes(sub)
Includes(s, sub) ==
  \E i \in 0..(Len(s) - Len(sub)) : SubSeq(s, i + 1, i + Len(sub)) = sub

----------------------------------------------------------------------------
(* createRecurringRecords: generation of the occurrence dates *)

\* The limit of futureDates.slice(0, 10).
MaxChildren == 10

\* An advance that leaves a monthly date where it is.
NextDate_MonthlyStays(cur, z, rtype, interval) ==
  IF rtype = "daily" THEN SetDate(cur, z, GetDate(cur, z) + interval)
  ELSE IF rtype = "weekly" THEN SetDate(cur, z, GetDate(cur, z) + 7 * interval)
  ELSE IF rtype = "monthly" THEN SetMonth(cur, z, GetMonth(cur, z))
  ELSE IF rtype = "yearly" THEN SetFullYear(cur, z, GetFullYear(cur, z) + interval)
  ELSE cur

\* One advance of currentDate by the rule (the if / else-if chain).
NextDate(cur, z, rtype, interval) ==
  IF rtype = "daily" THEN SetDate(cur, z, GetDate(cur, z) + interval)
  ELSE IF rtype = "weekly" THEN SetDate(cur, z, GetDate(cur, z) + 7 * interval)
  ELSE IF rtype = "monthly" THEN SetMonth(cur, z, GetMonth(cur, z) + interval)
  ELSE IF rtype = "yearly" THEN SetFullYear(cur, z, GetFullYear(cur, z) + interval)
  ELSE cur

\* A loop body that records the date before advancing it.
LoopBody_PushFirst(cur, fd, end, z, rtype, interval) ==
  [cur |-> NextDate(cur, z, rtype, interval),
   fd  |-> IF cur <= end THEN Append(fd, cur) ELSE fd]

\* A loop body that pushes every advanced date, within the end date or not.
LoopBody_AlwaysPush(cur, fd, end, z, rtype, interval) ==
  LET nd == NextDate(cur, z, rtype, interval)
  IN  [cur |-> nd, fd |-> Append(fd, nd)]

\* A loop body that pushes the advanced date twice.
LoopBody_PushTwice(cur, fd, end, z, rtype, interval) ==
  LET nd == NextDate(cur, z, rtype, interval)
  IN  [cur |-> nd, fd |-> IF nd <= end THEN Append(Append(fd, nd), nd) ELSE fd]

\* The body of the while loop: advance, then push if within the end date.
LoopBody(cur, fd, end, z, rtype, interval) ==
  LET nd == NextDate(cur, z, rtype, interval)
  IN  [cur |-> nd, fd |-> IF nd <= end THEN Append(fd, nd) ELSE fd]

\* futureDates.slice(0, 10) without the limit.
Slice10_NoLimit(fd) == fd

\* futureDates.slice(0, 10)
Slice10(fd) == SubSeq(fd, 1, IF Len(fd) < MaxChildren THEN Len(fd) ELSE MaxChildren)

\* One pass of while (currentDate < endDate): the body if the condition
\* holds, and nothing once the loop has exited.
LoopStep(st, end, z, rtype, interval) ==
  IF st.cur < end THEN LoopBody(st.cur, st.fd, end, z, rtype, interval) ELSE st

\* n passes of the loop, evaluated by halving so that the evaluation stays
\* shallow; the second half runs only if the loop has not exited.
RECURSIVE LoopSteps(_, _, _, _, _, _)
LoopSteps(st, n, end, z, rtype, interval) ==
  IF n = 0 THEN st
  ELSE IF n = 1 THEN LoopStep(st, end, z, rtype, interval)
  ELSE LET mid == LoopSteps(st, n \div 2, end, z, rtype, interval)
       IN  IF mid.cur < end
           THEN LoopSteps(mid, n - (n \div 2), end, z, rtype, interval)
           ELSE mid

\* The whole while loop, from currentDate = cur and futureDates = fd; no
\* input of the model needs more than MaxIterations passes.
WhileLoop(cur, fd, end, z, rtype, interval) ==
  LoopSteps([cur |-> cur, fd |-> fd], MaxIterations, end, z, rtype, interval).fd

\* futureDates as createRecurringRecords computes it from the form.
FutureDatesOf(fm, z) ==
  WhileLoop(ParseDate(fm.date), <<>>, ParseDate(fm.recurringEndDate), z,
            fm.recurringType, fm.recurringInterval)

----------------------------------------------------------------------------
(* SpecExpand: createRecurringRecords' date generation on its own, one     *)
(* loop iteration per step, over a range of validated form inputs.         *)

NoTime == -1

ZoneSet == {-1, 0, 1}

ExpandBases == {<<2024, 1, 31>>, <<2024, 2, 29>>, <<2023, 1, 31>>,
                <<2023, 12, 31>>, <<2024, 3, 15>>, <<2023, 8, 31>>}
ExpandEndOffsets == {0, 1, 182, 365}
ExpandIntervals == {1, 2, 5}
RecurringTypes == {"daily", "weekly", "monthly", "yearly"}

T_RegularService == <<"R","e","g","u","l","a","r"," ","S","e","r","v","i","c","e">>
T_Repair == <<"R","e","p","a","i","r">>
T_Completed == <<"C","o","m","p","l","e","t","e","d">>

\* The form as createRecurringRecords can see it: handleSubmit's validation
\* has passed and the interval has gone through handleChange.
ExpandInputs ==
  {[title |-> "Oil", date |-> b, type |-> T_Repair, notes |-> "",
    isRecurring |-> TRUE, recurringType |-> u, recurringInterval |-> i,
    recurringEndDate |-> ToISODate(ParseDate(b) + o * TicksPerDay)] :
     b \in ExpandBases, u \in RecurringTypes, i \in ExpandIntervals,
     o \in ExpandEndOffsets}

expandVars == <<baseDate, endDate, currentDate, futureDates, recordsToCreate, xpc>>
formVars == <<formData, maintenanceRecord, completeMode, photos, isSubmitting, error>>
submitVars == <<pc, recordData, parentId, childIdx, outcome, parentOk, attempted, failures,
               response>>
pageVars == <<view, sessions, completions>>
s3Vars == <<bucket, issued, removed, handlers>>
vars == <<now, tz, store, formVars, expandVars, submitVars, pageVars, peer, s3Vars>>

NoRecord == [id |-> 0]
NoView == [site |-> "none"]
NoError == "null"
NoPeer == [pc |-> "unmounted"]

\* No second form is open and no photo has been uploaded or deleted.
Alone ==
  /\ peer = NoPeer
  /\ bucket = {} /\ issued = 0 /\ removed = {} /\ handlers = <<>>
RvId == "rv-1"

\* No form is submitting and the store is empty.
LifecycleIdle ==
  /\ store = <<>>
  /\ maintenanceRecord = NoRecord /\ completeMode = FALSE
  /\ photos = <<>> /\ isSubmitting = FALSE /\ error = NoError
  /\ pc = "idle" /\ recordData = NoRecord /\ parentId = 0 /\ childIdx = 0
  /\ outcome = "none" /\ parentOk = FALSE /\ attempted = {} /\ failures = 0
  /\ response = "none"
  /\ view = NoView /\ sessions = 0 /\ completions = <<>>
  /\ Alone

InitExpand ==
  /\ formData \in ExpandInputs
  /\ tz \in ZoneSet
  /\ now = ParseDate(formData.recurringEndDate) - 1
  /\ baseDate = NoTime /\ endDate = NoTime /\ currentDate = NoTime
  /\ futureDates = <<>> /\ recordsToCreate = <<>>
  /\ xpc = "start"
  /\ LifecycleIdle

\* const baseDate, endDate; let currentDate; const futureDates = []
XBegin ==
  /\ xpc = "start"
  /\ baseDate' = ParseDate(formData.date)
  /\ endDate' = ParseDate(formData.recurringEndDate)
  /\ currentDate' = ParseDate(formData.date)
  /\ futureDates' = <<>>
  /\ xpc' = "loop"
  /\ UNCHANGED <<pageVars, peer, s3Vars, now, tz, store, formVars, submitVars, recordsToCreate>>

\* One iteration of while (currentDate < endDate)
XIterate ==
  /\ xpc = "loop"
  /\ currentDate < endDate
  /\ LET b == LoopBody(currentDate, futureDates, endDate, tz,
                       formData.recurringType, formData.recurringInterval)
     IN  /\ currentDate' = b.cur
         /\ futureDates' = b.fd
  /\ UNCHANGED <<pageVars, peer, s3Vars, now, tz, store, formVars, submitVars, baseDate, endDate, recordsToCreate, xpc>>

\* Loop exit and const recordsToCreate = futureDates.slice(0, 10)
XSlice ==
  /\ xpc = "loop"
  /\ ~(currentDate < endDate)
  /\ recordsToCreate' = Slice10(futureDates)
  /\ xpc' = "done"
  /\ UNCHANGED <<pageVars, peer, s3Vars, now, tz, store, formVars, submitVars, baseDate, endDate, currentDate, futureDates>>

NextExpand == XBegin \/ XIterate \/ XSlice

SpecExpand == InitExpand /\ [][NextExpand]_vars

----------------------------------------------------------------------------
(* SpecTerminate: createRecurringRecords' date generation run to its end,  *)
(* over validated forms whose end date lies before, on or after the base   *)
(* date.                                                                   *)

TerminateInputs ==
  {[title |-> "Oil", date |-> b, type |-> T_Repair, notes |-> "",
    isRecurring |-> TRUE, recurringType |-> u, recurringInterval |-> i,
    recurringEndDate |-> ToISODate(ParseDate(b) + o * TicksPerDay)] :
     b \in ExpandBases, u \in RecurringTypes, i \in ExpandIntervals,
     o \in {-30, 0, 1, 40}}

InitTerminate ==
  /\ formData \in TerminateInputs
  /\ tz \in ZoneSet
  /\ now = ParseDate(formData.recurringEndDate) - 1
  /\ baseDate = NoTime /\ endDate = NoTime /\ currentDate = NoTime
  /\ futureDates = <<>> /\ recordsToCreate = <<>>
  /\ xpc = "start"
  /\ LifecycleIdle

\* createRecurringRecords runs to its end once called: its loop is
\* synchronous code, nothing else runs in between.
SpecTerminate == InitTerminate /\ [][NextExpand]_vars /\ WF_vars(NextExpand)

----------------------------------------------------------------------------
(* MaintenanceForm *)

\* MAINTENANCE_TYPES[0] and the completed sentinel are defined above; the
\* type dropdown offers these.
TypeChoices == {T_RegularService, T_Completed}

\* new Date().toISOString().split('T')[0]
TodayString(t) == ToISODate(t)

\* new Date(new Date().setFullYear(new Date().getFullYear() + 1))
\*   .toISOString().split('T')[0]
OneYearFromNow(t, z) == ToISODate(SetFullYear(t, z, GetFullYear(t, z) + 1))

\* useState initial value of formData.
InitialFormData(t, z, cm) ==
  [title |-> "", date |-> TodayString(t),
   type |-> IF cm THEN T_Completed ELSE T_RegularService,
   notes |-> "", isRecurring |-> FALSE, recurringType |-> "monthly",
   recurringInterval |-> 1, recurringEndDate |-> OneYearFromNow(t, z)]

\* parseInt(value): optional sign, then the longest prefix of digits; NaN
\* when there is no digit.  Values are sequences of characters.
Digits == <<"0","1","2","3","4","5","6","7","8","9">>
IsDigit(c) == \E i \in 1..10 : Digits[i] = c
DigitValue(c) == (CHOOSE i \in 1..10 : Digits[i] = c) - 1
RECURSIVE DigitPrefixValue(_, _)
DigitPrefixValue(s, acc) ==
  IF s # <<>> /\ IsDigit(Head(s))
  THEN DigitPrefixValue(Tail(s), 10 * acc + DigitValue(Head(s)))
  ELSE acc
ParseInt(s) ==
  LET neg  == s # <<>> /\ Head(s) = "-"
      body == IF s # <<>> /\ Head(s) \in {"-", "+"} THEN Tail(s) ELSE s
  IN  IF body = <<>> \/ ~IsDigit(Head(body))
      THEN [nan |-> TRUE, val |-> 0]
      ELSE [nan |-> FALSE,
            val |-> IF neg THEN 0 - DigitPrefixValue(body, 0)
                    ELSE DigitPrefixValue(body, 0)]

\* parseInt(value) || 1, without the Math.max.
IntervalOf_NoFloor(value) ==
  LET p == ParseInt(value)
  IN  IF p.nan \/ p.val = 0 THEN 1 ELSE p.val

\* Math.max(1, parseInt(value) || 1)
IntervalOf(value) ==
  LET p == ParseInt(value)
      v == IF p.nan \/ p.val = 0 THEN 1 ELSE p.val
  IN  IF v < 1 THEN 1 ELSE v

\* A handleChange whose type select is not disabled in complete mode.
HandleChange_TypeEnabled(name, value) ==
  /\ pc = "idle"
  /\ name \in {"isRecurring"} => ~completeMode
  /\ name \in {"recurringType", "recurringInterval", "recurringEndDate"} =>
       (~completeMode /\ formData.isRecurring)
  /\ formData' =
       IF name = "recurringInterval"
       THEN [formData EXCEPT !.recurringInterval = IntervalOf(value)]
       ELSE [formData EXCEPT ![name] = value]
  /\ formData' # formData
  /\ UNCHANGED <<pageVars, peer, s3Vars, now, tz, store, expandVars, submitVars,
                 maintenanceRecord, completeMode, photos, isSubmitting, error>>

\* handleChange for one field; the fields a mode does not render, or
\* renders disabled, receive no change event.
HandleChange(name, value) ==
  /\ pc = "idle"
  /\ name \in {"type", "isRecurring"} => ~completeMode
  /\ name \in {"recurringType", "recurringInterval", "recurringEndDate"} =>
       (~completeMode /\ formData.isRecurring)
  /\ formData' =
       IF name = "recurringInterval"
       THEN [formData EXCEPT !.recurringInterval = IntervalOf(value)]
       ELSE [formData EXCEPT ![name] = value]
  /\ formData' # formData
  /\ UNCHANGED <<pageVars, peer, s3Vars, now, tz, store, expandVars, submitVars,
                 maintenanceRecord, completeMode, photos, isSubmitting, error>>

\* A recordData that carries the recurring fields whether or not the form
\* is recurring.
RecordDataOf_AlwaysRule(fm, ph) ==
  [title |-> fm.title, date |-> ParseDate(fm.date),
   type |-> fm.type, notes |-> fm.notes, photos |-> ph, rvId |-> RvId,
   isRecurring |-> fm.isRecurring, recurringType |-> fm.recurringType,
   recurringInterval |-> fm.recurringInterval,
   recurringEndDate |-> fm.recurringEndDate]

\* recordData of handleSubmit: the base fields, plus the recurring fields
\* if formData.isRecurring.
RecordDataOf(fm, ph) ==
  LET base == [title |-> fm.title, date |-> ParseDate(fm.date),
               type |-> fm.type, notes |-> fm.notes, photos |-> ph,
               rvId |-> RvId]
  IN  IF fm.isRecurring
      THEN [isRecurring |-> TRUE, recurringType |-> fm.recurringType,
            recurringInterval |-> fm.recurringInterval,
            recurringEndDate |-> fm.recurringEndDate] @@ base
      ELSE base

\* A childRecordData built by spreading the parent's recordData.
ChildRecordData_FromRecordData(fm, date, pid) ==
  [date |-> date, parentRecordId |-> pid] @@ RecordDataOf(fm, <<>>)

\* childRecordData of createRecurringRecords for one date.
ChildRecordData(fm, date, pid) ==
  [title |-> fm.title, date |-> date, type |-> fm.type, notes |-> fm.notes,
   rvId |-> RvId, parentRecordId |-> pid, isRecurring |-> FALSE]

\* A validation that does not look at the type.
ValidationError_NoType(fm, t) ==
  IF fm.title = "" \/ fm.date = NoDate
  THEN "Please fill in all required fields"
  ELSE IF fm.isRecurring /\ (fm.recurringType = "" \/ fm.recurringEndDate = NoDate)
  THEN "Please fill in all recurring maintenance fields"
  ELSE IF fm.isRecurring /\ ParseDate(fm.recurringEndDate) <= t
  THEN "End date must be in the future"
  ELSE NoError

\* A validation that accepts an end date equal to now.
ValidationError_EndNotBefore(fm, t) ==
  IF fm.title = "" \/ fm.date = NoDate \/ fm.type = <<>>
  THEN "Please fill in all required fields"
  ELSE IF fm.isRecurring /\ (fm.recurringType = "" \/ fm.recurringEndDate = NoDate)
  THEN "Please fill in all recurring maintenance fields"
  ELSE IF fm.isRecurring /\ ParseDate(fm.recurringEndDate) < t
  THEN "End date must be in the future"
  ELSE NoError

\* The message of handleSubmit's validation, or NoError if the form passes.
ValidationError(fm, t) ==
  IF fm.title = "" \/ fm.date = NoDate \/ fm.type = <<>>
  THEN "Please fill in all required fields"
  ELSE IF fm.isRecurring /\ (fm.recurringType = "" \/ fm.recurringEndDate = NoDate)
  THEN "Please fill in all recurring maintenance fields"
  ELSE IF fm.isRecurring /\ ParseDate(fm.recurringEndDate) <= t
  THEN "End date must be in the future"
  ELSE NoError

\* The record store: create assigns the next id, update merges the fields.
StoreCreate(st, data) == Append(st, data @@ [id |-> Len(st) + 1])

\* A store update that leaves the notes of the record as they are.
StoreUpdate_KeepsNotes(st, id, data) ==
  [st EXCEPT ![id] = [notes |-> st[id].notes] @@ data @@ st[id]]

\* update: the fields given replace those of the record, the others stay.
StoreUpdate(st, id, data) == [st EXCEPT ![id] = data @@ st[id]]

\* handleSubmit up to its first await: validation, recordData, and the
\* create or update call; a validation error goes through catch and finally.
Submit ==
  /\ pc = "idle"
  /\ outcome' = IF ValidationError(formData, now) = NoError THEN "none" ELSE "error"
  /\ error' = ValidationError(formData, now)
  /\ IF ValidationError(formData, now) = NoError
     THEN /\ isSubmitting' = TRUE
          /\ recordData' = RecordDataOf(formData, photos)
          /\ pc' = IF maintenanceRecord # NoRecord THEN "awaitUpdate" ELSE "awaitCreate"
     ELSE /\ isSubmitting' = FALSE
          /\ recordData' = NoRecord
          /\ pc' = "idle"
  /\ parentOk' = FALSE /\ attempted' = {} /\ parentId' = 0 /\ childIdx' = 0
  /\ response' = "none"
  /\ UNCHANGED <<pageVars, peer, s3Vars, now, tz, store, expandVars, failures,
                 formData, maintenanceRecord, completeMode, photos>>

\* The success path after the try block: onSuccess() or router.push, then
\* finally.
Succeed ==
  /\ outcome' = "success"
  /\ pc' = "done"
  /\ isSubmitting' = FALSE
  /\ UNCHANGED error

\* A catch block that is not followed by the finally.
Fail_NoFinally ==
  /\ outcome' = "error"
  /\ pc' = "idle"
  /\ isSubmitting' = isSubmitting
  /\ error' = "store error"

\* The catch block of handleSubmit, then finally.
Fail ==
  /\ outcome' = "error"
  /\ pc' = "idle"
  /\ isSubmitting' = FALSE
  /\ error' = "store error"

\* createRecurringRecords up to its first await: the dates, the slice, and
\* the first child create if there is one.
BeginChildren(pid) ==
  /\ baseDate' = ParseDate(formData.date)
  /\ endDate' = ParseDate(formData.recurringEndDate)
  /\ futureDates' = FutureDatesOf(formData, tz)
  /\ recordsToCreate' = Slice10(FutureDatesOf(formData, tz))
  /\ parentId' = pid
  /\ UNCHANGED <<currentDate, xpc>>
  /\ IF Slice10(FutureDatesOf(formData, tz)) = <<>>
     THEN /\ Succeed /\ childIdx' = 0 /\ attempted' = {}
     ELSE /\ pc' = "awaitChild" /\ childIdx' = 1 /\ attempted' = {1}
          /\ UNCHANGED <<outcome, isSubmitting, error>>

\* The parent create resolves with data: the record is stored; a recurring
\* form goes on to createRecurringRecords.
CreateParentOk ==
  /\ pc = "awaitCreate"
  /\ response' = "data"
  /\ store' = StoreCreate(store, recordData)
  /\ parentOk' = TRUE
  /\ IF formData.isRecurring
     THEN BeginChildren(Len(store) + 1)
     ELSE /\ Succeed
          /\ UNCHANGED <<expandVars, parentId, childIdx, attempted>>
  /\ recordData' = NoRecord
  /\ UNCHANGED <<pageVars, peer, s3Vars, now, tz, failures,
                 formData, maintenanceRecord, completeMode, photos>>

\* The parent create resolves with errors and no data: nothing is stored,
\* newRecord.data is null, and handleSubmit takes the success path.
CreateParentErrors ==
  /\ pc = "awaitCreate"
  /\ response' = "errors"
  /\ Succeed
  /\ recordData' = NoRecord
  /\ UNCHANGED <<pageVars, peer, s3Vars, now, tz, failures, store, expandVars, parentId, childIdx,
                 parentOk, attempted,
                 formData, maintenanceRecord, completeMode, photos>>

\* A rejected parent create that is logged and not surfaced.
CreateParentReject_Swallowed ==
  /\ pc = "awaitCreate"
  /\ response' = "rejected"
  /\ Succeed
  /\ recordData' = NoRecord
  /\ UNCHANGED <<pageVars, peer, s3Vars, now, tz, failures, store, expandVars, parentId, childIdx,
                 parentOk, attempted,
                 formData, maintenanceRecord, completeMode, photos>>

\* The parent create rejects: handleSubmit's catch.
CreateParentReject ==
  /\ pc = "awaitCreate"
  /\ response' = "rejected"
  /\ Fail
  /\ recordData' = NoRecord
  /\ UNCHANGED <<pageVars, peer, s3Vars, now, tz, failures, store, expandVars, parentId, childIdx,
                 parentOk, attempted,
                 formData, maintenanceRecord, completeMode, photos>>

\* After a child create has resolved: the for loop issues the next create,
\* or the function returns and handleSubmit succeeds.
NextChild ==
  IF childIdx < Len(recordsToCreate)
  THEN /\ childIdx' = childIdx + 1
       /\ attempted' = attempted \cup {childIdx + 1}
       /\ UNCHANGED <<pc, outcome, isSubmitting, error>>
  ELSE /\ Succeed
       /\ UNCHANGED <<childIdx, attempted>>

\* A child create resolves with data.
CreateChildOk ==
  /\ pc = "awaitChild"
  /\ response' = "data"
  /\ store' = StoreCreate(store,
                 ChildRecordData(formData, recordsToCreate[childIdx], parentId))
  /\ NextChild
  /\ UNCHANGED <<pageVars, peer, s3Vars, now, tz, expandVars, failures, recordData, parentId, parentOk,
                 formData, maintenanceRecord, completeMode, photos>>

\* A child create that resolves with errors and is issued again.
CreateChildErrors_Retries ==
  /\ pc = "awaitChild"
  /\ response' = "errors"
  /\ failures < MaxFailures
  /\ failures' = failures + 1
  /\ UNCHANGED <<pc, outcome, isSubmitting, error, childIdx, attempted>>
  /\ UNCHANGED <<pageVars, peer, s3Vars, now, tz, store, expandVars, recordData, parentId, parentOk,
                 formData, maintenanceRecord, completeMode, photos>>

\* A child create resolves with errors and no data: nothing is thrown and
\* the loop goes on.
CreateChildErrors ==
  /\ pc = "awaitChild"
  /\ response' = "errors"
  /\ failures < MaxFailures
  /\ failures' = failures + 1
  /\ NextChild
  /\ UNCHANGED <<pageVars, peer, s3Vars, now, tz, store, expandVars, recordData, parentId, parentOk,
                 formData, maintenanceRecord, completeMode, photos>>

\* A child create whose rejection reaches the catch of handleSubmit.
CreateChildReject_Propagates ==
  /\ pc = "awaitChild"
  /\ response' = "rejected"
  /\ Fail
  /\ UNCHANGED <<pageVars, peer, s3Vars, now, tz, failures, store, expandVars, recordData, parentId, childIdx,
                 parentOk, attempted,
                 formData, maintenanceRecord, completeMode, photos>>

\* A child create rejects: the await throws out of the for loop into the
\* catch of createRecurringRecords, which logs; handleSubmit succeeds.
CreateChildReject ==
  /\ pc = "awaitChild"
  /\ response' = "rejected"
  /\ Succeed
  /\ UNCHANGED <<pageVars, peer, s3Vars, now, tz, failures, store, expandVars, recordData, parentId, childIdx,
                 parentOk, attempted,
                 formData, maintenanceRecord, completeMode, photos>>

\* The platform clock advances.
MaxClock == 1
Clock0 == ParseDate(<<2024, 1, 31>>)
Tick ==
  /\ now < Clock0 + MaxClock
  /\ now' = now + 1
  /\ UNCHANGED <<pageVars, peer, s3Vars, tz, store, formVars, expandVars, submitVars>>

----------------------------------------------------------------------------
(* Spec: one MaintenanceForm mounted without a record (maintenance/new with *)
(* no id, or with an id whose get returned nothing), against an empty      *)
(* store.                                                                  *)

TitleChoices   == {"", "Oil"}
DateChoices    == {NoDate, <<2024, 1, 31>>, <<2025, 6, 15>>}
NotesChoices   == {"", "n"}
IntervalInputs == {<<"5">>, <<"0">>, <<>>, <<"-", "3">>, <<"1">>, <<"a">>}
EndDateChoices == {NoDate, <<2024, 1, 31>>, <<2024, 2, 1>>, <<2025, 1, 30>>}

\* Change events of the two selects: an option, or no value at all.
TypeInputs == TypeChoices \cup {<<>>}
RecurringTypeInputs == RecurringTypes \cup {""}

Init ==
  /\ now = Clock0
  /\ tz \in ZoneSet
  /\ store = <<>>
  /\ maintenanceRecord = NoRecord
  /\ completeMode \in BOOLEAN
  /\ formData = InitialFormData(now, tz, completeMode)
  /\ photos = <<>> /\ isSubmitting = FALSE /\ error = NoError
  /\ pc = "idle" /\ recordData = NoRecord /\ parentId = 0 /\ childIdx = 0
  /\ outcome = "none" /\ parentOk = FALSE /\ attempted = {} /\ failures = 0
  /\ response = "none"
  /\ view = NoView /\ sessions = 0 /\ completions = <<>>
  /\ Alone
  /\ baseDate = NoTime /\ endDate = NoTime /\ currentDate = NoTime
  /\ futureDates = <<>> /\ recordsToCreate = <<>>
  /\ xpc = "start"

Next ==
  \/ \E v \in TitleChoices : HandleChange("title", v)
  \/ \E v \in DateChoices : HandleChange("date", v)
  \/ \E v \in TypeInputs : HandleChange("type", v)
  \/ \E v \in NotesChoices : HandleChange("notes", v)
  \/ \E v \in BOOLEAN : HandleChange("isRecurring", v)
  \/ \E v \in RecurringTypeInputs : HandleChange("recurringType", v)
  \/ \E v \in IntervalInputs : HandleChange("recurringInterval", v)
  \/ \E v \in EndDateChoices : HandleChange("recurringEndDate", v)
  \/ Submit
  \/ CreateParentOk
  \/ CreateParentErrors
  \/ CreateParentReject
  \/ CreateChildOk
  \/ CreateChildErrors
  \/ CreateChildReject
  \/ Tick

Spec == Init /\ [][Next]_vars

----------------------------------------------------------------------------
(* Read side: the status of a record on the card, the history filter, the  *)
(* index counts and the calendar                                           *)

S_completed == <<"c","o","m","p","l","e","t","e","d">>

\* record.type.toLowerCase().includes('completed')
IsCompletedType(type) == Includes(ToLowerCase(type), S_completed)

\* A getStatus that compares the date before it looks at the type.
GetStatus_DateFirst(record, t) ==
  IF record.date < t THEN "overdue"
  ELSE IF IsCompletedType(record.type) THEN "completed"
  ELSE "upcoming"

\* A getStatus whose overdue test is recordDate <= today.
GetStatus_OrEqual(record, t) ==
  IF IsCompletedType(record.type) THEN "completed"
  ELSE IF record.date <= t THEN "overdue"
  ELSE "upcoming"

\* A getStatus whose date comparison is the other way round.
GetStatus_FutureOverdue(record, t) ==
  IF IsCompletedType(record.type) THEN "completed"
  ELSE IF record.date > t THEN "overdue"
  ELSE "upcoming"

\* MaintenanceCard.getStatus, with today = new Date() = t.
GetStatus(record, t) ==
  IF IsCompletedType(record.type) THEN "completed"
  ELSE IF record.date < t THEN "overdue"
  ELSE "upcoming"

\* MaintenanceHistory.getFilteredRecords for one value of filter.
GetFilteredRecords(records, filter, t) ==
  LET Keep(record) ==
        IF filter = "completed" THEN IsCompletedType(record.type)
        ELSE IF filter = "overdue"
        THEN ~IsCompletedType(record.type) /\ record.date < t
        ELSE IF filter = "upcoming"
        THEN ~IsCompletedType(record.type) /\ record.date >= t
        ELSE TRUE
  IN  IF filter = "all" THEN records ELSE SelectSeq(records, Keep)

\* A getMaintenanceCounts whose overdue test is date <= today.
GetMaintenanceCounts_OverdueOrEqual(records, t) ==
  LET Completed(record) == IsCompletedType(record.type)
      Overdue(record) == ~IsCompletedType(record.type) /\ record.date <= t
      Upcoming(record) == ~IsCompletedType(record.type) /\ record.date >= t
  IN  [completed |-> Len(SelectSeq(records, Completed)),
       overdue   |-> Len(SelectSeq(records, Overdue)),
       upcoming  |-> Len(SelectSeq(records, Upcoming))]

\* MaintenanceIndex.getMaintenanceCounts
GetMaintenanceCounts(records, t) ==
  LET Completed(record) == IsCompletedType(record.type)
      Overdue(record) == ~IsCompletedType(record.type) /\ record.date < t
      Upcoming(record) == ~IsCompletedType(record.type) /\ record.date >= t
  IN  [completed |-> Len(SelectSeq(records, Completed)),
       overdue   |-> Len(SelectSeq(records, Overdue)),
       upcoming  |-> Len(SelectSeq(records, Upcoming))]

\* MaintenanceCalendar.getRecordsForDate: the records on the local day of
\* the cell.
GetRecordsForDate(records, cell, z) ==
  LET SameDay(record) == LocalDay(record.date, z) = LocalDay(cell, z)
  IN  SelectSeq(records, SameDay)

\* MaintenanceCalendar.getDateStatusClass for the cell of one day: both
\* today and the record date go through setHours(0, 0, 0, 0).
GetDateStatusClass(records, cell, t, z) ==
  LET dateRecords == GetRecordsForDate(records, cell, z)
      today == SetHoursZero(t, z)
      hasOverdue ==
        \E i \in 1..Len(dateRecords) :
          /\ ~IsCompletedType(dateRecords[i].type)
          /\ SetHoursZero(dateRecords[i].date, z) < today
      hasCompleted ==
        \E i \in 1..Len(dateRecords) : IsCompletedType(dateRecords[i].type)
      hasUpcoming ==
        \E i \in 1..Len(dateRecords) :
          /\ ~IsCompletedType(dateRecords[i].type)
          /\ SetHoursZero(dateRecords[i].date, z) >= today
  IN  IF dateRecords = <<>> THEN ""
      ELSE IF hasOverdue THEN "overdue"
      ELSE IF hasUpcoming THEN "upcoming"
      ELSE IF hasCompleted THEN "completed"
      ELSE ""

readFrame == <<tz, now, store, formVars, expandVars, submitVars, sessions, completions,
               peer, s3Vars>>

\* MaintenanceCard renders the card of one record.
RenderCard ==
  /\ \E i \in 1..Len(store) :
       view' = [site |-> "card", at |-> now, id |-> i,
                status |-> GetStatus(store[i], now)]
  /\ UNCHANGED readFrame

\* MaintenanceHistory renders the list under one filter.
RenderHistory ==
  /\ \E f \in {"all", "completed", "overdue", "upcoming"} :
       view' = [site |-> "history", at |-> now, filter |-> f,
                shown |-> GetFilteredRecords(store, f, now)]
  /\ UNCHANGED readFrame

\* MaintenanceIndex renders the summary counts.
RenderCounts ==
  /\ view' = [site |-> "counts", at |-> now,
              counts |-> GetMaintenanceCounts(store, now)]
  /\ UNCHANGED readFrame

\* MaintenanceCalendar renders the cell of the day of one record.
RenderCalendar ==
  /\ \E i \in 1..Len(store) :
       view' = [site |-> "calendar", at |-> now, id |-> i,
                class |-> GetDateStatusClass(store, SetHoursZero(store[i].date, tz),
                                             now, tz)]
  /\ UNCHANGED readFrame

\* Array.prototype.sort with the comparator sign * (a.date - b.date): a
\* stable sort, ascending by date for sign 1 and descending for sign -1.
RECURSIVE SortByDate(_, _)
SortByDate(records, sign) ==
  IF records = <<>> THEN <<>>
  ELSE LET h == Head(records)
           rest == SortByDate(Tail(records), sign)
           Before(r) == sign * r.date < sign * h.date
           NotBefore(r) == ~Before(r)
       IN  SelectSeq(rest, Before) \o <<h>> \o SelectSeq(rest, NotBefore)

\* array.slice(0, 2)
Slice2(records) == SubSeq(records, 1, IF Len(records) < 2 THEN Len(records) ELSE 2)

\* fetchMaintenanceRecords of the index page and of the dashboard: the
\* listed records mapped to their typed fields and sorted newest first.
FetchMaintenanceRecords(st) ==
  LET Typed(i) == [id |-> st[i].id, title |-> st[i].title, date |-> st[i].date,
                   type |-> st[i].type,
                   notes |-> IF "notes" \in DOMAIN st[i] THEN st[i].notes ELSE "",
                   rvId |-> st[i].rvId,
                   photos |-> IF "photos" \in DOMAIN st[i] THEN st[i].photos ELSE <<>>]
  IN  SortByDate([i \in 1..Len(st) |-> Typed(i)], -1)

\* A getUpcomingRecords that does not sort.
GetUpcomingRecords_Unsorted(records, t) ==
  LET Upcoming(record) == ~IsCompletedType(record.type) /\ record.date >= t
  IN  Slice2(SelectSeq(records, Upcoming))

\* MaintenanceIndex.getUpcomingRecords
GetUpcomingRecords(records, t) ==
  LET Upcoming(record) == ~IsCompletedType(record.type) /\ record.date >= t
  IN  Slice2(SortByDate(SelectSeq(records, Upcoming), 1))

\* MaintenanceIndex.getOverdueRecords
GetOverdueRecords(records, t) ==
  LET Overdue(record) == ~IsCompletedType(record.type) /\ record.date < t
  IN  Slice2(SortByDate(SelectSeq(records, Overdue), 1))

\* MaintenanceIndex.getRecentCompletedRecords
GetRecentCompletedRecords(records) ==
  LET Completed(record) == IsCompletedType(record.type)
  IN  Slice2(SelectSeq(records, Completed))

\* Dashboard.getUpcomingRecords
DashboardGetUpcomingRecords(records, t) ==
  LET Upcoming(record) == ~IsCompletedType(record.type) /\ record.date >= t
  IN  Slice2(SortByDate(SelectSeq(records, Upcoming), 1))

\* Dashboard.getOverdueRecords
DashboardGetOverdueRecords(records, t) ==
  LET Overdue(record) == ~IsCompletedType(record.type) /\ record.date < t
  IN  Slice2(SortByDate(SelectSeq(records, Overdue), 1))

\* MaintenanceIndex renders its three lists from the fetched records.
RenderIndexLists ==
  /\ LET records == FetchMaintenanceRecords(store)
     IN  view' = [site |-> "index", at |-> now, records |-> records,
                  upcoming |-> GetUpcomingRecords(records, now),
                  overdue |-> GetOverdueRecords(records, now),
                  completed |-> GetRecentCompletedRecords(records)]
  /\ UNCHANGED readFrame

\* The dashboard renders its two lists from the fetched records.
RenderDashboardLists ==
  /\ LET records == FetchMaintenanceRecords(store)
     IN  view' = [site |-> "dashboard", at |-> now, records |-> records,
                  upcoming |-> DashboardGetUpcomingRecords(records, now),
                  overdue |-> DashboardGetOverdueRecords(records, now)]
  /\ UNCHANGED readFrame

----------------------------------------------------------------------------
(* SpecClassify: the read-side pages over a one-record collection, as the  *)
(* clock advances.                                                         *)

T_CompletedUpper == <<"C","O","M","P","L","E","T","E","D">>
T_CompletedService == <<"C","o","m","p","l","e","t","e","d"," ","S","e","r","v","i","c","e">>
T_NotCompletedMixed == <<"o","i","l"," ","c","O","m","P","l","E","t","E","d">>
T_Complete == <<"C","o","m","p","l","e","t","e">>

\* Type labels that contain "completed" in some letter case, and labels
\* that do not.
CompletedLabels == {T_Completed, T_CompletedUpper, T_CompletedService,
                    S_completed, T_NotCompletedMixed}
OtherLabels == {T_Repair, T_RegularService, T_Complete}

ClassifyDates == (Clock0 - TicksPerDay - 1)..(Clock0 + TicksPerDay + 1)
ClassifyClockEnd == Clock0 + TicksPerDay + 1

InitClassify ==
  /\ now = Clock0
  /\ tz \in ZoneSet
  /\ \E d \in ClassifyDates, l \in CompletedLabels \cup OtherLabels :
       store = <<[id |-> 1, title |-> "Oil", date |-> d, type |-> l,
                  notes |-> "", photos |-> <<>>, rvId |-> RvId]>>
  /\ formData = InitialFormData(now, tz, FALSE)
  /\ maintenanceRecord = NoRecord /\ completeMode = FALSE
  /\ photos = <<>> /\ isSubmitting = FALSE /\ error = NoError
  /\ pc = "unmounted" /\ recordData = NoRecord /\ parentId = 0 /\ childIdx = 0
  /\ outcome = "none" /\ parentOk = FALSE /\ attempted = {} /\ failures = 0
  /\ response = "none"
  /\ view = NoView /\ sessions = 0 /\ completions = <<>>
  /\ Alone
  /\ baseDate = NoTime /\ endDate = NoTime /\ currentDate = NoTime
  /\ futureDates = <<>> /\ recordsToCreate = <<>>
  /\ xpc = "start"

\* The platform clock advances under the read-side pages.
TickView ==
  /\ now < ClassifyClockEnd
  /\ now' = now + 1
  /\ UNCHANGED <<pageVars, peer, s3Vars, tz, store, formVars, expandVars, submitVars>>

NextClassify ==
  \/ RenderCard
  \/ RenderHistory
  \/ RenderCounts
  \/ RenderCalendar
  \/ TickView

SpecClassify == InitClassify /\ [][NextClassify]_vars

----------------------------------------------------------------------------
(* SpecSummary: the summary counts and the top lists over a collection of  *)
(* several records, as the clock advances.                                 *)

\* Most records in the collection.
MaxRecords == 3

SummaryDates == {Clock0 - 5 * TicksPerDay, Clock0 - TicksPerDay, Clock0,
                 Clock0 + 3 * TicksPerDay}
SummaryLabels == {T_Repair, T_CompletedService}

\* The collection with the dates and labels f, in the order of listing.
SummaryStore(f) ==
  [i \in DOMAIN f |-> [id |-> i, title |-> "Oil", date |-> f[i][1],
                       type |-> f[i][2], notes |-> "", photos |-> <<>>,
                       rvId |-> RvId]]

InitSummary ==
  /\ now = Clock0
  /\ tz = 0
  /\ \E n \in 0..MaxRecords :
       \E f \in [1..n -> SummaryDates \X SummaryLabels] : store = SummaryStore(f)
  /\ formData = InitialFormData(now, tz, FALSE)
  /\ maintenanceRecord = NoRecord /\ completeMode = FALSE
  /\ photos = <<>> /\ isSubmitting = FALSE /\ error = NoError
  /\ pc = "unmounted" /\ recordData = NoRecord /\ parentId = 0 /\ childIdx = 0
  /\ outcome = "none" /\ parentOk = FALSE /\ attempted = {} /\ failures = 0
  /\ response = "none"
  /\ view = NoView /\ sessions = 0 /\ completions = <<>>
  /\ Alone
  /\ baseDate = NoTime /\ endDate = NoTime /\ currentDate = NoTime
  /\ futureDates = <<>> /\ recordsToCreate = <<>>
  /\ xpc = "start"

NextSummary ==
  \/ RenderCounts
  \/ RenderIndexLists
  \/ RenderDashboardLists
  \/ Tick

SpecSummary == InitSummary /\ [][NextSummary]_vars

----------------------------------------------------------------------------
(* maintenance/new opened on an existing record: edit and mark-completed *)

\* Most times maintenance/new is opened on a record in one behaviour.
MaxSessions == 2

\* record.f || dflt for a field the record may lack.
FieldOr(record, f, dflt) == IF f \in DOMAIN record THEN record[f] ELSE dflt

\* typedRecord of MaintenanceNew.fetchData: the fields it copies from the
\* fetched record; with complete=true the type is replaced.
TypedRecord(data, complete) ==
  [id |-> data.id, title |-> data.title, date |-> data.date,
   type |-> IF complete THEN T_Completed ELSE data.type,
   notes |-> FieldOr(data, "notes", ""), rvId |-> data.rvId,
   photos |-> FieldOr(data, "photos", <<>>)]

\* The useEffect of MaintenanceForm that fills the form from the record.
FormDataFromRecord(record, t, z, cm) ==
  [title |-> record.title,
   date |-> ToISODate(record.date),
   type |-> IF cm THEN T_Completed
            ELSE IF record.type = <<>> THEN T_RegularService ELSE record.type,
   notes |-> FieldOr(record, "notes", ""),
   isRecurring |-> FieldOr(record, "isRecurring", FALSE),
   recurringType |-> FieldOr(record, "recurringType", "monthly"),
   recurringInterval |-> FieldOr(record, "recurringInterval", 1),
   recurringEndDate |-> FieldOr(record, "recurringEndDate", OneYearFromNow(t, z))]

\* maintenance/new?id=..[&complete=true]: the get resolves with the record,
\* the form mounts with it.  The page is reached from a list, after a
\* finished or cancelled form.
OpenRecord(id, complete) ==
  /\ pc \in {"unmounted", "idle", "done"}
  /\ sessions < MaxSessions
  /\ id \in 1..Len(store)
  /\ sessions' = sessions + 1
  /\ maintenanceRecord' = TypedRecord(store[id], complete)
  /\ completeMode' = complete
  /\ formData' = FormDataFromRecord(TypedRecord(store[id], complete), now, tz, complete)
  /\ photos' = FieldOr(store[id], "photos", <<>>)
  /\ isSubmitting' = FALSE /\ error' = NoError
  /\ pc' = "idle" /\ outcome' = "none" /\ response' = "none"
  /\ UNCHANGED <<now, tz, store, expandVars, view, completions, peer, s3Vars,
                 recordData, parentId, childIdx, parentOk, attempted, failures>>

\* The update resolves with data: the store merges the fields into the
\* record; handleSubmit succeeds.
UpdateOk ==
  /\ pc = "awaitUpdate"
  /\ response' = "data"
  /\ store' = StoreUpdate(store, maintenanceRecord.id, recordData)
  /\ completions' = IF completeMode
                    THEN [completions EXCEPT ![maintenanceRecord.id] = @ + 1]
                    ELSE completions
  /\ Succeed
  /\ recordData' = NoRecord
  /\ UNCHANGED <<now, tz, expandVars, view, sessions, peer, s3Vars,
                 parentId, childIdx, parentOk, attempted, failures,
                 formData, maintenanceRecord, completeMode, photos>>

\* The update resolves with errors and no data: nothing is written and
\* nothing is thrown; handleSubmit takes the success path.
UpdateErrors ==
  /\ pc = "awaitUpdate"
  /\ response' = "errors"
  /\ Succeed
  /\ recordData' = NoRecord
  /\ UNCHANGED <<pageVars, peer, s3Vars, now, tz, failures, store, expandVars, parentId, childIdx,
                 parentOk, attempted,
                 formData, maintenanceRecord, completeMode, photos>>

\* The update rejects: handleSubmit's catch.
UpdateReject ==
  /\ pc = "awaitUpdate"
  /\ response' = "rejected"
  /\ Fail
  /\ recordData' = NoRecord
  /\ UNCHANGED <<pageVars, peer, s3Vars, now, tz, failures, store, expandVars, parentId, childIdx,
                 parentOk, attempted,
                 formData, maintenanceRecord, completeMode, photos>>

----------------------------------------------------------------------------
(* SpecUpdate: edit and mark-completed sessions on the records of a store  *)
(* that an earlier createRecord has filled.                                *)

\* The store after createRecord of form fm when every write succeeds.
RECURSIVE WithChildren(_, _, _, _)
WithChildren(st, dates, fm, pid) ==
  IF dates = <<>> THEN st
  ELSE WithChildren(StoreCreate(st, ChildRecordData(fm, Head(dates), pid)),
                    Tail(dates), fm, pid)
StoreAfterCreate(fm, z) ==
  LET st == StoreCreate(<<>>, RecordDataOf(fm, <<>>))
  IN  IF fm.isRecurring
      THEN WithChildren(st, Slice10(FutureDatesOf(fm, z)), fm, 1)
      ELSE st

SeedForms(z) ==
  {[InitialFormData(Clock0, z, FALSE) EXCEPT !.title = "Oil"],
   [InitialFormData(Clock0, z, FALSE) EXCEPT !.title = "Oil",
      !.isRecurring = TRUE, !.recurringInterval = 5]}

UpdateDateChoices == {<<2024, 1, 31>>, <<2024, 3, 1>>}
UpdateNotesChoices == {"", "done"}

InitUpdate ==
  /\ now = Clock0
  /\ tz \in ZoneSet
  /\ \E fm \in SeedForms(tz) : store = StoreAfterCreate(fm, tz)
  /\ formData = InitialFormData(now, tz, FALSE)
  /\ maintenanceRecord = NoRecord /\ completeMode = FALSE
  /\ photos = <<>> /\ isSubmitting = FALSE /\ error = NoError
  /\ pc = "unmounted" /\ recordData = NoRecord /\ parentId = 0 /\ childIdx = 0
  /\ outcome = "none" /\ parentOk = FALSE /\ attempted = {} /\ failures = 0
  /\ response = "none"
  /\ view = NoView /\ sessions = 0
  /\ completions = [i \in 1..Len(store) |-> 0]
  /\ Alone
  /\ baseDate = NoTime /\ endDate = NoTime /\ currentDate = NoTime
  /\ futureDates = <<>> /\ recordsToCreate = <<>>
  /\ xpc = "start"

NextUpdate ==
  \/ \E id \in 1..Len(store), complete \in BOOLEAN : OpenRecord(id, complete)
  \/ \E v \in UpdateDateChoices : HandleChange("date", v)
  \/ \E v \in TypeChoices : HandleChange("type", v)
  \/ \E v \in UpdateNotesChoices : HandleChange("notes", v)
  \/ \E v \in BOOLEAN : HandleChange("isRecurring", v)
  \/ Submit
  \/ UpdateOk
  \/ UpdateErrors
  \/ UpdateReject

SpecUpdate == InitUpdate /\ [][NextUpdate]_vars

----------------------------------------------------------------------------
(* The photos of the form *)

MAX_PHOTOS == 5

\* Most S3 keys that uploads hand out in one behaviour.
MaxKeys == 2

\* Most photo handlers started on the form in one behaviour.
MaxHandlers == 3

\* No photo handler of the form is at an await.
NoneRunning == \A h \in 1..Len(handlers) : ~handlers[h].running

\* uploadToS3 makes its key of the time and a random string: a key that
\* no earlier upload was given.
NewKey == issued + 1

\* updatedPhotos.splice(index, 1), index counted from 1.
Splice(ph, index) ==
  SubSeq(ph, 1, index - 1) \o SubSeq(ph, index + 1, Len(ph))

\* handleUploadPhoto with a file selected and no other handler running
\* during its awaits: at the limit it sets the error; otherwise
\* compressImage and uploadToS3 either store the object and give its key,
\* which is appended to photos, or throw into the catch.
HandleUploadPhoto(uploaded) ==
  /\ pc = "idle" /\ NoneRunning
  /\ IF Len(photos) >= MAX_PHOTOS
     THEN /\ error' = "You can only upload a maximum of 5 photos."
          /\ UNCHANGED <<photos, bucket, issued>>
     ELSE IF uploaded
     THEN /\ issued < MaxKeys
          /\ photos' = Append(photos, NewKey)
          /\ bucket' = bucket \cup {NewKey}
          /\ issued' = issued + 1
          /\ UNCHANGED error
     ELSE /\ error' = "upload error"
          /\ UNCHANGED <<photos, bucket, issued>>
  /\ UNCHANGED <<pageVars, peer, removed, handlers, now, tz, store, expandVars, submitVars,
                 formData, maintenanceRecord, completeMode, isSubmitting>>

\* handleDeletePhoto(index) with no other handler running during its
\* await: deleteFromS3, whose failure is only logged, then photos without
\* the element at index.
HandleDeletePhoto(index, deleted) ==
  /\ pc = "idle" /\ NoneRunning
  /\ index \in 1..Len(photos)
  /\ bucket' = IF deleted THEN bucket \ {photos[index]} ELSE bucket
  /\ removed' = removed \cup {photos[index]}
  /\ photos' = Splice(photos, index)
  /\ UNCHANGED <<pageVars, peer, issued, handlers, now, tz, store, expandVars, submitVars,
                 formData, maintenanceRecord, completeMode, isSubmitting, error>>

\* handleUploadPhoto up to its first await: at the limit it sets the error
\* and returns; otherwise it goes on to compressImage and uploadToS3, with
\* the photos of the render it was called in.
UploadStart ==
  /\ pc \in {"idle", "awaitCreate", "awaitChild", "awaitUpdate"}
  /\ Len(handlers) < MaxHandlers
  /\ IF Len(photos) >= MAX_PHOTOS
     THEN /\ error' = "You can only upload a maximum of 5 photos."
          /\ UNCHANGED handlers
     ELSE /\ handlers' = Append(handlers, [kind |-> "upload", running |-> TRUE,
                                         photos |-> photos])
          /\ UNCHANGED error
  /\ UNCHANGED <<pageVars, peer, bucket, issued, removed, now, tz, store, expandVars,
                 submitVars, formData, maintenanceRecord, completeMode, isSubmitting,
                 photos>>

\* The awaits of a running handleUploadPhoto end: the object is stored and
\* setPhotos([...photos, s3Key]) appends its key to the photos the handler
\* started with, or one of the calls throws into the catch.
UploadFinish(h, uploaded) ==
  /\ h \in 1..Len(handlers)
  /\ handlers[h].kind = "upload" /\ handlers[h].running
  /\ IF uploaded
     THEN /\ issued < MaxKeys
          /\ photos' = Append(handlers[h].photos, NewKey)
          /\ bucket' = bucket \cup {NewKey}
          /\ issued' = issued + 1
          /\ UNCHANGED error
     ELSE /\ error' = "upload error"
          /\ UNCHANGED <<photos, bucket, issued>>
  /\ handlers' = [handlers EXCEPT ![h] = [kind |-> "upload", running |-> FALSE]]
  /\ UNCHANGED <<pageVars, peer, removed, now, tz, store, expandVars, submitVars,
                 formData, maintenanceRecord, completeMode, isSubmitting>>

\* handleDeletePhoto(index) up to its await of deleteFromS3, with the
\* photos of the render it was called in.
DeleteStart(index) ==
  /\ pc \in {"idle", "awaitCreate", "awaitChild", "awaitUpdate"}
  /\ Len(handlers) < MaxHandlers
  /\ index \in 1..Len(photos)
  /\ handlers' = Append(handlers, [kind |-> "delete", running |-> TRUE,
                                   photos |-> photos, index |-> index])
  /\ UNCHANGED <<pageVars, peer, bucket, issued, removed, now, tz, store, expandVars,
                 submitVars, formVars>>

\* deleteFromS3 of a running handleDeletePhoto ends, the object deleted or
\* the failure logged; setPhotos(updatedPhotos) sets the photos the handler
\* started with, without the element at index.
DeleteFinish(h, deleted) ==
  /\ h \in 1..Len(handlers)
  /\ handlers[h].kind = "delete" /\ handlers[h].running
  /\ LET key == handlers[h].photos[handlers[h].index]
     IN  /\ bucket' = IF deleted THEN bucket \ {key} ELSE bucket
         /\ removed' = removed \cup {key}
  /\ photos' = Splice(handlers[h].photos, handlers[h].index)
  /\ handlers' = [handlers EXCEPT ![h] = [kind |-> "delete", running |-> FALSE]]
  /\ UNCHANGED <<pageVars, peer, issued, now, tz, store, expandVars, submitVars,
                 formData, maintenanceRecord, completeMode, isSubmitting, error>>

----------------------------------------------------------------------------
(* SpecPhotos: the photo handlers of a form opened on a record, started    *)
(* and finished in any order.                                              *)

InitPhotos ==
  /\ now = Clock0
  /\ tz = 0
  /\ \E ph \in {<<>>, <<101, 102>>} :
       /\ store = StoreCreate(<<>>,
            RecordDataOf([InitialFormData(Clock0, tz, FALSE) EXCEPT !.title = "Oil"],
                         ph))
       /\ photos = ph
       /\ bucket = {ph[i] : i \in 1..Len(ph)}
  /\ maintenanceRecord = TypedRecord(store[1], FALSE)
  /\ completeMode = FALSE
  /\ formData = FormDataFromRecord(maintenanceRecord, now, tz, FALSE)
  /\ isSubmitting = FALSE /\ error = NoError
  /\ pc = "idle" /\ recordData = NoRecord /\ parentId = 0 /\ childIdx = 0
  /\ outcome = "none" /\ parentOk = FALSE /\ attempted = {} /\ failures = 0
  /\ response = "none"
  /\ view = NoView /\ sessions = 1
  /\ completions = [i \in 1..Len(store) |-> 0]
  /\ peer = NoPeer
  /\ issued = 0 /\ removed = {} /\ handlers = <<>>
  /\ baseDate = NoTime /\ endDate = NoTime /\ currentDate = NoTime
  /\ futureDates = <<>> /\ recordsToCreate = <<>>
  /\ xpc = "start"

NextPhotos ==
  \/ UploadStart
  \/ \E h \in 1..MaxHandlers, u \in BOOLEAN : UploadFinish(h, u)
  \/ \E i \in 1..MAX_PHOTOS : DeleteStart(i)
  \/ \E h \in 1..MaxHandlers, del \in BOOLEAN : DeleteFinish(h, del)

SpecPhotos == InitPhotos /\ [][NextPhotos]_vars

----------------------------------------------------------------------------
(* SpecChildren: createRecord of a recurring form with photos: the parent  *)
(* write and the batch of child writes.                                    *)

ChildTitles == {"Oil", "Tires"}
ChildRules == {<<"monthly", 5>>, <<"monthly", 1>>}

\* Recurring forms that pass handleSubmit's validation at Clock0.
ChildForms(z) ==
  {[InitialFormData(Clock0, z, FALSE) EXCEPT
      !.title = t, !.notes = n, !.type = ty, !.isRecurring = TRUE,
      !.recurringType = r[1], !.recurringInterval = r[2]] :
     t \in ChildTitles, n \in NotesChoices, ty \in TypeChoices, r \in ChildRules}

InitChildren ==
  /\ now = Clock0
  /\ tz \in ZoneSet
  /\ formData \in ChildForms(tz)
  /\ baseDate = NoTime /\ endDate = NoTime /\ currentDate = NoTime
  /\ futureDates = <<>> /\ recordsToCreate = <<>>
  /\ xpc = "start"
  /\ LifecycleIdle

NextChildren ==
  \/ \E u \in BOOLEAN : HandleUploadPhoto(u)
  \/ \E i \in 1..MAX_PHOTOS, del \in BOOLEAN : HandleDeletePhoto(i, del)
  \/ Submit
  \/ CreateParentOk
  \/ CreateParentErrors
  \/ CreateParentReject
  \/ CreateChildOk
  \/ CreateChildErrors
  \/ CreateChildReject

SpecChildren == InitChildren /\ [][NextChildren]_vars

----------------------------------------------------------------------------
(* SpecLifecycle: one createRecord into an empty store, then edit and      *)
(* mark-completed sessions on the records it has stored.                   *)

\* The form of a monthly instruction of interval 5: two occurrences
\* within the default end date.
LifecycleForm(z) ==
  [InitialFormData(Clock0, z, FALSE) EXCEPT
     !.title = "Oil", !.isRecurring = TRUE, !.recurringInterval = 5]

InitLifecycle ==
  /\ now = Clock0
  /\ tz \in ZoneSet
  /\ formData = LifecycleForm(tz)
  /\ baseDate = NoTime /\ endDate = NoTime /\ currentDate = NoTime
  /\ futureDates = <<>> /\ recordsToCreate = <<>>
  /\ xpc = "start"
  /\ LifecycleIdle

NextLifecycle ==
  \/ Submit
  \/ CreateParentOk
  \/ CreateParentErrors
  \/ CreateParentReject
  \/ CreateChildOk
  \/ CreateChildErrors
  \/ CreateChildReject
  \/ \E id \in 1..Len(store), complete \in BOOLEAN : OpenRecord(id, complete)
  \/ \E v \in BOOLEAN : HandleChange("isRecurring", v)
  \/ UpdateOk
  \/ UpdateErrors
  \/ UpdateReject

SpecLifecycle == InitLifecycle /\ [][NextLifecycle]_vars

----------------------------------------------------------------------------
(* SpecStatus: one stored record through edit and mark-completed sessions  *)
(* while the clock advances.                                               *)

StatusTypeChoices == {T_RegularService, T_Completed, T_CompletedService}

InitStatus ==
  /\ now = Clock0
  /\ tz \in ZoneSet
  /\ store = StoreAfterCreate([InitialFormData(Clock0, tz, FALSE) EXCEPT !.title = "Oil"], tz)
  /\ formData = InitialFormData(now, tz, FALSE)
  /\ maintenanceRecord = NoRecord /\ completeMode = FALSE
  /\ photos = <<>> /\ isSubmitting = FALSE /\ error = NoError
  /\ pc = "unmounted" /\ recordData = NoRecord /\ parentId = 0 /\ childIdx = 0
  /\ outcome = "none" /\ parentOk = FALSE /\ attempted = {} /\ failures = 0
  /\ response = "none"
  /\ view = NoView /\ sessions = 0
  /\ completions = [i \in 1..Len(store) |-> 0]
  /\ Alone
  /\ baseDate = NoTime /\ endDate = NoTime /\ currentDate = NoTime
  /\ futureDates = <<>> /\ recordsToCreate = <<>>
  /\ xpc = "start"

NextStatus ==
  \/ \E id \in 1..Len(store), complete \in BOOLEAN : OpenRecord(id, complete)
  \/ \E v \in UpdateDateChoices : HandleChange("date", v)
  \/ \E v \in StatusTypeChoices : HandleChange("type", v)
  \/ \E v \in UpdateNotesChoices : HandleChange("notes", v)
  \/ Submit
  \/ UpdateOk
  \/ UpdateErrors
  \/ UpdateReject
  \/ Tick

SpecStatus == InitStatus /\ [][NextStatus]_vars

----------------------------------------------------------------------------
(* The "Next occurrences" preview of the recurring section *)

\* The i-th date of the preview, i = 1..3: a copy of the base date moved
\* by i times the interval in one step of the rule's setter.
PreviewTime(fm, z, i) ==
  LET base == ParseDate(fm.date)
      n == i * fm.recurringInterval
  IN  IF fm.recurringType = "daily" THEN SetDate(base, z, GetDate(base, z) + n)
      ELSE IF fm.recurringType = "weekly"
      THEN SetDate(base, z, GetDate(base, z) + 7 * n)
      ELSE IF fm.recurringType = "monthly"
      THEN SetMonth(base, z, GetMonth(base, z) + n)
      ELSE IF fm.recurringType = "yearly"
      THEN SetFullYear(base, z, GetFullYear(base, z) + n)
      ELSE base

\* date.toLocaleDateString(undefined, {year, month, day}): the local
\* calendar day, as <<year, month, day>>.
ToLocaleDateString(t, z) ==
  <<GetFullYear(t, z), GetMonth(t, z) + 1, GetDate(t, z)>>

\* The recurring section renders the three list items of the preview.
RenderPreview ==
  /\ pc = "idle" /\ ~completeMode
  /\ formData.isRecurring /\ formData.date # NoDate
  /\ view' = [site |-> "preview", at |-> now,
              times |-> [i \in 1..3 |-> PreviewTime(formData, tz, i)],
              shown |-> [i \in 1..3 |->
                          ToLocaleDateString(PreviewTime(formData, tz, i), tz)]]
  /\ UNCHANGED readFrame

----------------------------------------------------------------------------
(* SpecPreview: a recurring form shows its preview and is then submitted.  *)

PreviewBases == {<<2024, 1, 31>>, <<2024, 2, 29>>, <<2024, 3, 15>>}

PreviewForms ==
  {[title |-> "Oil", date |-> b, type |-> T_Repair, notes |-> "",
    isRecurring |-> TRUE, recurringType |-> u, recurringInterval |-> i,
    recurringEndDate |-> ToISODate(ParseDate(b) + o * TicksPerDay)] :
     b \in PreviewBases, u \in RecurringTypes, i \in {1, 2},
     o \in {1, 182, 365}}

InitPreview ==
  /\ formData \in PreviewForms
  /\ tz \in ZoneSet
  /\ now = ParseDate(formData.recurringEndDate) - 1
  /\ baseDate = NoTime /\ endDate = NoTime /\ currentDate = NoTime
  /\ futureDates = <<>> /\ recordsToCreate = <<>>
  /\ xpc = "start"
  /\ LifecycleIdle

NextPreview ==
  \/ RenderPreview
  \/ Submit
  \/ CreateParentOk
  \/ CreateChildOk

SpecPreview == InitPreview /\ [][NextPreview]_vars

----------------------------------------------------------------------------
(* A second MaintenanceForm on the same store: maintenance/new opened on a *)
(* record in another tab.  Its state is the record peer; its handlers are  *)
(* those of the form above.                                               *)

\* maintenance/new?id=..[&complete=true] in the other tab.
PeerOpenRecord(id, complete) ==
  /\ peer.pc \in {"unmounted", "idle", "done"}
  /\ sessions < MaxSessions
  /\ id \in 1..Len(store)
  /\ sessions' = sessions + 1
  /\ peer' = [pc |-> "idle",
              maintenanceRecord |-> TypedRecord(store[id], complete),
              completeMode |-> complete,
              formData |-> FormDataFromRecord(TypedRecord(store[id], complete),
                                              now, tz, complete),
              photos |-> FieldOr(store[id], "photos", <<>>),
              isSubmitting |-> FALSE, error |-> NoError,
              recordData |-> NoRecord, outcome |-> "none", response |-> "none"]
  /\ UNCHANGED <<now, tz, store, formVars, expandVars, submitVars, view, completions,
                 s3Vars>>

\* handleChange of the other tab's form.
PeerHandleChange(name, value) ==
  /\ peer.pc = "idle"
  /\ name \in {"type", "isRecurring"} => ~peer.completeMode
  /\ name \in {"recurringType", "recurringInterval", "recurringEndDate"} =>
       (~peer.completeMode /\ peer.formData.isRecurring)
  /\ peer' = [peer EXCEPT !.formData =
                IF name = "recurringInterval"
                THEN [@ EXCEPT !.recurringInterval = IntervalOf(value)]
                ELSE [@ EXCEPT ![name] = value]]
  /\ peer' # peer
  /\ UNCHANGED <<pageVars, s3Vars, now, tz, store, formVars, expandVars, submitVars>>

\* handleDeletePhoto of the other tab's form, no other handler running
\* during its await.
PeerHandleDeletePhoto(index, deleted) ==
  /\ peer.pc = "idle"
  /\ index \in 1..Len(peer.photos)
  /\ bucket' = IF deleted THEN bucket \ {peer.photos[index]} ELSE bucket
  /\ removed' = removed \cup {peer.photos[index]}
  /\ peer' = [peer EXCEPT !.photos = Splice(@, index)]
  /\ UNCHANGED <<pageVars, issued, handlers, now, tz, store, formVars, expandVars,
                 submitVars>>

\* handleSubmit of the other tab's form, which has a record, up to its
\* await of the update.
PeerSubmit ==
  /\ peer.pc = "idle"
  /\ peer' =
       IF ValidationError(peer.formData, now) = NoError
       THEN [peer EXCEPT !.pc = "awaitUpdate", !.isSubmitting = TRUE,
                         !.error = NoError, !.outcome = "none",
                         !.response = "none",
                         !.recordData = RecordDataOf(peer.formData, peer.photos)]
       ELSE [peer EXCEPT !.error = ValidationError(peer.formData, now),
                         !.outcome = "error", !.response = "none"]
  /\ UNCHANGED <<pageVars, s3Vars, now, tz, store, formVars, expandVars, submitVars>>

\* The other tab's update resolves with data.
PeerUpdateOk ==
  /\ peer.pc = "awaitUpdate"
  /\ store' = StoreUpdate(store, peer.maintenanceRecord.id, peer.recordData)
  /\ completions' = IF peer.completeMode
                    THEN [completions EXCEPT ![peer.maintenanceRecord.id] = @ + 1]
                    ELSE completions
  /\ peer' = [peer EXCEPT !.pc = "done", !.isSubmitting = FALSE,
                          !.outcome = "success", !.response = "data",
                          !.recordData = NoRecord]
  /\ UNCHANGED <<now, tz, formVars, expandVars, submitVars, view, sessions, s3Vars>>

\* The other tab's update resolves with errors and no data.
PeerUpdateErrors ==
  /\ peer.pc = "awaitUpdate"
  /\ peer' = [peer EXCEPT !.pc = "done", !.isSubmitting = FALSE,
                          !.outcome = "success", !.response = "errors",
                          !.recordData = NoRecord]
  /\ UNCHANGED <<pageVars, s3Vars, now, tz, store, formVars, expandVars, submitVars>>

\* The other tab's update rejects.
PeerUpdateReject ==
  /\ peer.pc = "awaitUpdate"
  /\ peer' = [peer EXCEPT !.pc = "idle", !.isSubmitting = FALSE,
                          !.outcome = "error", !.response = "rejected",
                          !.error = "store error", !.recordData = NoRecord]
  /\ UNCHANGED <<pageVars, s3Vars, now, tz, store, formVars, expandVars, submitVars>>

----------------------------------------------------------------------------
(* SpecConcurrent: two tabs mark the same stored record completed, each    *)
(* with its own changes of the fields and removals of the stored photo,    *)
(* their updates in any order.                                             *)

ConcurrentTitles == {"Oil", "Oil change"}

\* The store after createRecord of a form with one photo.
InitConcurrent ==
  /\ now = Clock0
  /\ tz = 0
  /\ store = StoreCreate(<<>>,
       RecordDataOf([InitialFormData(Clock0, tz, FALSE) EXCEPT !.title = "Oil"],
                    <<1>>))
  /\ formData = InitialFormData(now, tz, FALSE)
  /\ maintenanceRecord = NoRecord /\ completeMode = FALSE
  /\ photos = <<>> /\ isSubmitting = FALSE /\ error = NoError
  /\ pc = "unmounted" /\ recordData = NoRecord /\ parentId = 0 /\ childIdx = 0
  /\ outcome = "none" /\ parentOk = FALSE /\ attempted = {} /\ failures = 0
  /\ response = "none"
  /\ view = NoView /\ sessions = 0
  /\ completions = [i \in 1..Len(store) |-> 0]
  /\ peer = NoPeer
  /\ bucket = {1} /\ issued = 1 /\ removed = {} /\ handlers = <<>>
  /\ baseDate = NoTime /\ endDate = NoTime /\ currentDate = NoTime
  /\ futureDates = <<>> /\ recordsToCreate = <<>>
  /\ xpc = "start"

NextConcurrent ==
  \/ \E id \in 1..Len(store) : OpenRecord(id, TRUE)
  \/ \E v \in ConcurrentTitles : HandleChange("title", v)
  \/ \E v \in UpdateDateChoices : HandleChange("date", v)
  \/ \E v \in UpdateNotesChoices : HandleChange("notes", v)
  \/ \E i \in 1..MAX_PHOTOS, del \in BOOLEAN : HandleDeletePhoto(i, del)
  \/ Submit
  \/ UpdateOk
  \/ UpdateErrors
  \/ UpdateReject
  \/ \E id \in 1..Len(store) : PeerOpenRecord(id, TRUE)
  \/ \E v \in ConcurrentTitles : PeerHandleChange("title", v)
  \/ \E v \in UpdateDateChoices : PeerHandleChange("date", v)
  \/ \E v \in UpdateNotesChoices : PeerHandleChange("notes", v)
  \/ \E i \in 1..MAX_PHOTOS, del \in BOOLEAN : PeerHandleDeletePhoto(i, del)
  \/ PeerSubmit
  \/ PeerUpdateOk
  \/ PeerUpdateErrors
  \/ PeerUpdateReject

SpecConcurrent == InitConcurrent /\ [][NextConcurrent]_vars

----------------------------------------------------------------------------
(* Claims about the date generation *)

\* Days in the month m0 (0-based, may overflow into later years) of year y.
DaysInMonth(y, m0) == MakeDay(y, m0 + 1, 1) - MakeDay(y, m0, 1)

\* The date n calendar months after t with the day of month kept, or
\* clamped to the last day of the target month when it has no such day.
ClampedMonthsAfter(t, z, n) ==
  LET y  == GetFullYear(t, z)
      m0 == GetMonth(t, z) + n
      d  == GetDate(t, z)
      dd == IF d <= DaysInMonth(y, m0) THEN d ELSE DaysInMonth(y, m0)
  IN  MakeDay(y, m0, dd) * TicksPerDay + LocalTime(t, z) - z

\* C4: a monthly expansion keeps the day of month where the target month
\* has it and clamps to the last day of the month otherwise: the k-th
\* occurrence lies k * interval calendar months after the base date, no
\* month skipped and none overflowing into the next month.
C4_MonthlyClamps ==
  (xpc = "done" /\ formData.recurringType = "monthly") =>
    \A k \in 1..Len(futureDates) :
      futureDates[k] =
        ClampedMonthsAfter(baseDate, tz, k * formData.recurringInterval)

\* C6: the generated dates never contain the base date: every occurrence,
\* and so every child date, is strictly later than the parent's date.
C6_BaseDateExcluded ==
  xpc \in {"loop", "done"} =>
    /\ \A k \in 1..Len(futureDates) : futureDates[k] > baseDate
    /\ \A k \in 1..Len(recordsToCreate) : recordsToCreate[k] > baseDate

C6_Witness ==
  /\ xpc = "done"
  /\ Len(recordsToCreate) > 0
  /\ recordsToCreate[1] > ParseDate(formData.date)

----------------------------------------------------------------------------
(* Claims about createRecord (handleSubmit without a record) *)

\* The submitted form is recurring and its parent record has been stored.
RecurringCreated == parentOk /\ formData.isRecurring

\* C2: when the store rejects one of 10 scheduled child writes, the other
\* 9 are still attempted: a finished createRecord with 10 scheduled
\* occurrences has issued the write of every one of them.
C2_OtherChildrenAttempted ==
  (pc = "done" /\ RecurringCreated /\ Len(recordsToCreate) = MaxChildren) =>
    attempted = 1..MaxChildren

\* C3: once the parent write has succeeded, handleSubmit ends in the
\* success outcome with no error, whichever child writes fail, and no
\* stored record is deleted or rolled back.
C3_ParentSuccessStands ==
  [][/\ Len(store') >= Len(store)
     /\ SubSeq(store', 1, Len(store)) = store
     /\ (pc # "idle" /\ pc' \in {"idle", "done"} /\ parentOk') =>
          (pc' = "done" /\ outcome' = "success" /\ error' = NoError
           /\ ~isSubmitting')]_vars

C3_Witness ==
  /\ pc = "done" /\ RecurringCreated /\ outcome = "success"
  /\ failures > 0 /\ attempted = 1..MaxChildren
  /\ Len(store) > 1
  /\ Len(store) < 1 + Len(recordsToCreate)

\* C5: one createRecord issues at most 10 child writes, whatever the rule
\* and end date; a daily rule of interval 1 ending 365 days after the base
\* date materializes exactly the 10 earliest occurrences.
C5_AtMostTenChildren ==
  /\ Len(recordsToCreate) <= MaxChildren
  /\ Cardinality(attempted) <= MaxChildren
  /\ attempted \subseteq 1..Len(recordsToCreate)
  /\ Len(store) <= 1 + MaxChildren
  /\ (pc \in {"awaitChild", "done"} /\ RecurringCreated) =>
       /\ Len(futureDates) >= MaxChildren => Len(recordsToCreate) = MaxChildren
       /\ \A k \in 1..Len(recordsToCreate) : recordsToCreate[k] = futureDates[k]
  /\ (/\ pc \in {"awaitChild", "done"} /\ RecurringCreated
      /\ formData.recurringType = "daily" /\ formData.recurringInterval = 1
      /\ ParseDate(formData.recurringEndDate)
           = ParseDate(formData.date) + 365 * TicksPerDay) =>
       recordsToCreate =
         [k \in 1..MaxChildren |-> ParseDate(formData.date) + k * TicksPerDay]

C5_Witness ==
  /\ pc = "done" /\ RecurringCreated
  /\ formData.recurringType = "daily" /\ formData.recurringInterval = 1
  /\ ParseDate(formData.recurringEndDate)
       = ParseDate(formData.date) + 365 * TicksPerDay
  /\ Len(futureDates) = 365
  /\ attempted = 1..MaxChildren
  /\ Len(store) = 1 + MaxChildren

\* The first date the loop computes lies after the end date.
FirstOccurrenceAfterEnd ==
  NextDate(ParseDate(formData.date), tz, formData.recurringType,
           formData.recurringInterval) > ParseDate(formData.recurringEndDate)

\* C7: when the first computed occurrence already lies after the end date
\* the expansion is empty and createRecord persists exactly one record,
\* the parent, with no child write.
C7_EmptyExpansionParentOnly ==
  (pc = "done" /\ RecurringCreated /\ FirstOccurrenceAfterEnd) =>
    /\ futureDates = <<>> /\ recordsToCreate = <<>>
    /\ attempted = {}
    /\ Len(store) = 1
    /\ store[1].date = ParseDate(formData.date)
    /\ outcome = "success"

C7_Witness ==
  /\ pc = "done" /\ RecurringCreated /\ FirstOccurrenceAfterEnd
  /\ formData.recurringType = "yearly" /\ formData.recurringInterval = 5
  /\ ParseDate(formData.recurringEndDate) = ParseDate(formData.date) + TicksPerDay
  /\ Len(store) = 1

----------------------------------------------------------------------------
(* Claims about the status classification *)

\* The one record of the collection is shown with status s by the page
\* that rendered last.
ShownAs(s) ==
  CASE view.site = "card" -> view.status = s
    [] view.site = "history" ->
         /\ view.filter = "all" => view.shown = store
         /\ view.filter = s => view.shown = store
         /\ view.filter \notin {"all", s} => view.shown = <<>>
    [] view.site = "counts" ->
         view.counts = [c \in {"completed", "overdue", "upcoming"} |->
                          IF c = s THEN 1 ELSE 0]
    [] view.site = "calendar" -> view.class = s
    [] OTHER -> FALSE

\* C1: a record whose type label contains "completed" in any letter case
\* is classified Completed, whether its date is before, equal to or after
\* now.
C1_CompletedTakesPriority ==
  (view.site # "none" /\ store[1].type \in CompletedLabels) =>
    ShownAs("completed")

C1_Witness ==
  /\ view.site = "card" /\ view.status = "completed"
  /\ store[1].type = T_NotCompletedMixed
  /\ store[1].date < view.at

\* C8: a record that is not completed and is dated exactly now is
\* Upcoming; dated one day before now it is Overdue.
C8_Boundary ==
  (view.site # "none" /\ store[1].type \in OtherLabels) =>
    /\ store[1].date = view.at => ShownAs("upcoming")
    /\ store[1].date = view.at - TicksPerDay => ShownAs("overdue")

C8_Witness ==
  /\ view.site = "card" /\ store[1].type \in OtherLabels
  /\ store[1].date = view.at /\ view.status = "upcoming"

\* C9: the overdue test compares calendar days only: a record that is not
\* completed is Overdue exactly when its day is before today, and
\* Upcoming on today's date at whatever time of day.
C9_DateOnlyComparison ==
  (view.site # "none" /\ store[1].type \in OtherLabels) =>
    ShownAs(IF LocalDay(store[1].date, tz) < LocalDay(view.at, tz)
            THEN "overdue" ELSE "upcoming")

----------------------------------------------------------------------------
(* Claims about markCompleted (handleSubmit in complete mode on a record) *)

\* C10: markCompleted is idempotent on the type: every mark-completed
\* update the store applies leaves the record's type equal to the
\* completed sentinel and ends without error, also when the record was
\* already completed, and it rewrites that one record only.
C10_CompletionIdempotent ==
  [][\A id \in 1..Len(store) :
       completions'[id] > completions[id] =>
         /\ store'[id].type = T_Completed
         /\ store[id].type = T_Completed => store'[id].type = store[id].type
         /\ outcome' = "success" /\ error' = NoError
         /\ Len(store') = Len(store)
         /\ \A j \in 1..Len(store) : j # id => store'[j] = store[j]]_vars

C10_Witness ==
  \E id \in 1..Len(store) :
    /\ completions[id] >= 2
    /\ store[id].type = T_Completed
    /\ pc = "done" /\ outcome = "success" /\ error = NoError

SubmitStep == pc = "idle" /\ formData' = formData /\ now' = now

\* handleSubmit ends at once in its catch with message msg: no store call
\* is issued, nothing is stored, the success path is not taken.
RejectedWith(msg) ==
  /\ error' = msg /\ outcome' = "error"
  /\ pc' = "idle" /\ ~isSubmitting'
  /\ store' = store /\ response' = "none"
  /\ attempted' = {} /\ ~parentOk'

RequiredMissing ==
  formData.title = "" \/ formData.date = NoDate \/ formData.type = <<>>

\* C13: handleSubmit on a form whose title, date or type is empty fails
\* with the required-fields message before any store call: no create or
\* update is issued, no child is generated, the success path is not taken;
\* and no store call is ever in flight for such a form.
C13_RequiredFieldsValidated ==
  [][/\ (SubmitStep /\ RequiredMissing) =>
          RejectedWith("Please fill in all required fields")
     /\ (pc' \in {"awaitCreate", "awaitUpdate", "awaitChild"}) =>
          (formData'.title # "" /\ formData'.date # NoDate
           /\ formData'.type # <<>>)]_vars

C13_Witness ==
  /\ pc = "idle" /\ outcome = "error"
  /\ error = "Please fill in all required fields"
  /\ formData.type = <<>> /\ formData.title # "" /\ formData.date # NoDate
  /\ formData.isRecurring
  /\ store = <<>> /\ attempted = {} /\ response = "none"

RecurringInvalid ==
  /\ formData.isRecurring
  /\ \/ formData.recurringType = ""
     \/ formData.recurringEndDate = NoDate
     \/ ParseDate(formData.recurringEndDate) <= now

\* C14: handleSubmit on a recurring form fails with a validation message
\* and issues no store write when the recurrence type or the end date is
\* missing or when the end date is not strictly after now; an end date
\* equal to now is rejected.
C14_RecurringValidated ==
  [][(SubmitStep /\ RecurringInvalid) =>
       IF RequiredMissing
       THEN RejectedWith("Please fill in all required fields")
       ELSE IF formData.recurringType = "" \/ formData.recurringEndDate = NoDate
       THEN RejectedWith("Please fill in all recurring maintenance fields")
       ELSE RejectedWith("End date must be in the future")]_vars

C14_Witness ==
  /\ pc = "idle" /\ outcome = "error"
  /\ error = "End date must be in the future"
  /\ formData.isRecurring /\ formData.recurringEndDate # NoDate
  /\ ParseDate(formData.recurringEndDate) = now
  /\ store = <<>> /\ attempted = {} /\ response = "none"

\* C15: every stored record that carries a recurrence rule has its
\* recurrence end date strictly after its own date.
C15_EndAfterOwnDate ==
  \A i \in 1..Len(store) :
    ("isRecurring" \in DOMAIN store[i] /\ store[i].isRecurring) =>
      ParseDate(store[i].recurringEndDate) > store[i].date

\* C16: every child record that createRecord writes copies title, type,
\* notes and rvId from the submitted parent, has isRecurring false and
\* parentRecordId equal to the id the store gave the parent, and has no
\* recurrence type, interval or end date and no photos, also when the
\* parent has photos.
C16_ChildFields ==
  \A i \in 2..Len(store) :
    /\ DOMAIN store[i] = {"id", "title", "date", "type", "notes", "rvId",
                          "parentRecordId", "isRecurring"}
    /\ store[i].title = store[1].title /\ store[i].title = formData.title
    /\ store[i].type = store[1].type /\ store[i].type = formData.type
    /\ store[i].notes = store[1].notes /\ store[i].notes = formData.notes
    /\ store[i].rvId = store[1].rvId
    /\ store[i].isRecurring = FALSE
    /\ store[i].parentRecordId = store[1].id
    /\ store[1].photos = photos
    /\ \E k \in 1..Len(recordsToCreate) : store[i].date = recordsToCreate[k]

C16_Witness ==
  /\ pc = "done" /\ Len(store) >= 3
  /\ Len(store[1].photos) >= 2
  /\ store[1].notes # "" /\ store[1].isRecurring
  /\ \A i \in 2..Len(store) : "photos" \notin DOMAIN store[i]

----------------------------------------------------------------------------
(* Claims about the summary *)

\* The positions of records whose status at time t is s.
WithStatus(records, s, t) ==
  {i \in 1..Len(records) : GetStatus(records[i], t) = s}

\* The collection of the claim's sample: now - 5 days "Repair", now + 3
\* days "Repair", now - 1 day "Completed Service".
SampleStore(t) ==
  /\ Len(store) = 3
  /\ store[1].date = t - 5 * TicksPerDay /\ store[1].type = T_Repair
  /\ store[2].date = t + 3 * TicksPerDay /\ store[2].type = T_Repair
  /\ store[3].date = t - TicksPerDay /\ store[3].type = T_CompletedService

\* C17: the summary counts are the numbers of records that getStatus
\* classifies Completed, Upcoming and Overdue at the same now, so they sum
\* to the size of the collection, and they are the sizes of the history
\* page's filtered lists; the sample collection gives 1 / 1 / 1.
C17_CountsMatchClassifier ==
  view.site = "counts" =>
    /\ \A s \in {"completed", "upcoming", "overdue"} :
         /\ view.counts[s] = Cardinality(WithStatus(store, s, view.at))
         /\ view.counts[s] = Len(GetFilteredRecords(store, s, view.at))
    /\ view.counts.completed + view.counts.upcoming + view.counts.overdue
         = Len(store)
    /\ SampleStore(view.at) =>
         view.counts = [completed |-> 1, upcoming |-> 1, overdue |-> 1]

C17_Witness ==
  /\ view.site = "counts" /\ SampleStore(view.at)
  /\ view.counts = [completed |-> 1, upcoming |-> 1, overdue |-> 1]

\* list is at most 2 records of status s at the time of the view, in
\* ascending date order, and no record of that status left out of it is
\* dated before one in it.
EarliestTwo(list, s) ==
  LET all == WithStatus(view.records, s, view.at)
  IN  /\ Len(list) = (IF Cardinality(all) < 2 THEN Cardinality(all) ELSE 2)
      /\ \A k \in 1..Len(list) : \E i \in all : view.records[i] = list[k]
      /\ \A k \in 1..Len(list), l \in 1..Len(list) :
           (k < l) => (list[k].date <= list[l].date /\ list[k].id # list[l].id)
      /\ \A i \in all :
           (\A k \in 1..Len(list) : list[k].id # view.records[i].id) =>
             \A k \in 1..Len(list) : list[k].date <= view.records[i].date

\* list is the first at most 2 records of status s in the order of the
\* collection.
FirstTwoInOrder(list, s) ==
  LET all == WithStatus(view.records, s, view.at)
      Nth(k) == CHOOSE i \in all : Cardinality({j \in all : j < i}) = k - 1
  IN  /\ Len(list) = (IF Cardinality(all) < 2 THEN Cardinality(all) ELSE 2)
      /\ \A k \in 1..Len(list) : list[k] = view.records[Nth(k)]

\* C18: of the summary's lists, Upcoming holds the at most 2 upcoming
\* records with the earliest dates, ascending; Overdue the at most 2
\* overdue records with the oldest dates, ascending; Completed the first
\* at most 2 completed records in the order of the page's collection;
\* each list holds records of its own status only.
C18_TopLists ==
  view.site \in {"index", "dashboard"} =>
    /\ Len(view.records) = Len(store)
    /\ \A i \in 1..Len(store) : \E j \in 1..Len(view.records) :
         /\ view.records[j].id = store[i].id
         /\ view.records[j].date = store[i].date
         /\ view.records[j].type = store[i].type
    /\ EarliestTwo(view.upcoming, "upcoming")
    /\ EarliestTwo(view.overdue, "overdue")
    /\ view.site = "index" => FirstTwoInOrder(view.completed, "completed")

\* Three overdue records with three dates, listed neither oldest first nor
\* newest first: the list is the two oldest, oldest first.
C18_Witness ==
  /\ view.site = "index" /\ Len(store) = 3
  /\ WithStatus(store, "overdue", view.at) = {1, 2, 3}
  /\ store[2].date < store[3].date /\ store[3].date < store[1].date
  /\ view.overdue = <<view.records[3], view.records[2]>>
  /\ view.overdue[1].id = 2 /\ view.overdue[2].id = 3

----------------------------------------------------------------------------
(* Claims about the status of a stored record over its life *)

\* The step applies an update of record id in the store.
UpdateApplied(id) ==
  /\ pc = "awaitUpdate" /\ response' = "data" /\ maintenanceRecord.id = id

----------------------------------------------------------------------------
(* Claims about generated children after the create *)

RecurrenceFields == {"recurringType", "recurringInterval", "recurringEndDate"}

\* C19: a record that carries a parentRecordId has isRecurring false and
\* no recurrence rule of its own, after any create, edit or
\* mark-completed.
C19_ChildNeverRecurring ==
  \A i \in 1..Len(store) :
    "parentRecordId" \in DOMAIN store[i] =>
      /\ store[i].isRecurring = FALSE
      /\ DOMAIN store[i] \cap RecurrenceFields = {}

\* C20: records are added to the store only by the create of a form
\* without a record and by the batch of child creates that follows it,
\* one record per write; every child write is issued once, in order, and
\* a failed one is not issued again; an update (an edit, also one that
\* switches isRecurring on or changes the rule, or a mark-completed) and
\* every step of a later session leave the number of records unchanged.
C20_ChildrenOnlyAtCreate ==
  [][/\ Len(store') > Len(store) =>
          /\ pc \in {"awaitCreate", "awaitChild"}
          /\ maintenanceRecord = NoRecord /\ sessions = 0
          /\ Len(store') = Len(store) + 1
          /\ pc = "awaitChild" =>
               /\ store'[Len(store')].date = recordsToCreate[childIdx]
               /\ \A i \in 1..Len(store) :
                    store[i].date # recordsToCreate[childIdx]
     /\ Len(store') >= Len(store)
     /\ (pc = "awaitChild" /\ pc' = "awaitChild") => childIdx' = childIdx + 1
     /\ pc = "awaitChild" => pc' \in {"awaitChild", "done"}
     /\ (pc = "awaitUpdate" \/ sessions > 0) => Len(store') = Len(store)]_vars

\* A child write failed in the create; later the parent was edited with
\* isRecurring switched on and another interval, the update was applied,
\* and the missing child is still missing.
C20_Witness ==
  /\ pc = "done" /\ sessions >= 1 /\ response = "data"
  /\ maintenanceRecord.id = 1 /\ ~completeMode
  /\ Len(recordsToCreate) = 2 /\ failures > 0
  /\ Len(store) = 2
  /\ store[1].isRecurring /\ store[1].recurringInterval = 1

----------------------------------------------------------------------------
(* Claims about the status as the clock advances *)

\* C21: for a record that no step writes and whose type is not completed,
\* the status is Upcoming or Overdue, an Overdue record stays Overdue as
\* now advances, so the status changes at most once, from Upcoming to
\* Overdue; the change comes with an advance of the clock and no write of
\* the store, and the card shows the status of the moment it renders.
C21_UpcomingToOverdueOnce ==
  [][\A id \in 1..Len(store) :
       (store'[id] = store[id] /\ ~IsCompletedType(store[id].type)) =>
         LET before == GetStatus(store[id], now)
             after  == GetStatus(store'[id], now')
         IN  /\ before \in {"upcoming", "overdue"}
             /\ after \in {"upcoming", "overdue"}
             /\ before = "overdue" => after = "overdue"
             /\ before # after =>
                  (now' > now /\ store' = store /\ response' = response)
             /\ (view'.site = "card" /\ view'.id = id /\ view'.at = now') =>
                  view'.status = after]_vars

\* The card showed the record Upcoming; the clock has passed the record's
\* date since and the record is Overdue.
C21_Witness ==
  /\ view.site = "card" /\ view.status = "upcoming" /\ view.at < now
  /\ ~IsCompletedType(store[1].type)
  /\ store[1].date >= view.at /\ store[1].date < now
  /\ GetStatus(store[1], now) = "overdue"

----------------------------------------------------------------------------
(* Claims about two concurrent mark-completed operations *)

\* The fields of a record that a mark-completed may change besides the type.
EditedFields(r) == <<r.title, r.date, r.notes, r.photos>>

\* The step applies the update of the other tab's form to record id.
PeerUpdateApplied(id) ==
  /\ peer.pc = "awaitUpdate" /\ peer'.response = "data"
  /\ peer.maintenanceRecord.id = id

\* Both forms have finished a mark-completed that the store applied.
BothCompleted ==
  /\ pc = "done" /\ response = "data" /\ completeMode
  /\ peer.pc = "done" /\ peer.response = "data" /\ peer.completeMode
  /\ maintenanceRecord.id = peer.maintenanceRecord.id

\* C22: for every interleaving of two mark-completed operations on one
\* record, each applied update leaves the record with the completed
\* sentinel as type and with title, date, notes and photos all as that
\* operation submitted them, and no other step changes the record; so the
\* final record is wholly that of the operation applied last, never a
\* mixture of the two.
C22_LastWriterWins ==
  /\ [](BothCompleted =>
         LET r == store[maintenanceRecord.id]
         IN  /\ r.type = T_Completed
             /\ \/ EditedFields(r) = EditedFields(RecordDataOf(formData, photos))
                \/ EditedFields(r) =
                     EditedFields(RecordDataOf(peer.formData, peer.photos)))
  /\ [][\A id \in 1..Len(store) :
         /\ UpdateApplied(id) =>
              /\ store'[id].type = T_Completed
              /\ EditedFields(store'[id]) = EditedFields(recordData)
         /\ PeerUpdateApplied(id) =>
              /\ store'[id].type = T_Completed
              /\ EditedFields(store'[id]) = EditedFields(peer.recordData)
         /\ (~UpdateApplied(id) /\ ~PeerUpdateApplied(id)) =>
              store'[id] = store[id]]_vars

\* Both tabs opened the record as it was created; one changed the notes and
\* deleted the photo, the other changed the title and the date; both
\* updates were applied and the record is the second tab's.
C22_Witness ==
  /\ BothCompleted /\ completions[1] = 2
  /\ EditedFields(maintenanceRecord) = EditedFields(peer.maintenanceRecord)
  /\ maintenanceRecord.notes = "" /\ maintenanceRecord.photos = <<1>>
  /\ formData.notes = "done" /\ photos = <<>> /\ formData.title = "Oil"
  /\ peer.formData.notes = "" /\ peer.photos = <<1>>
  /\ peer.formData.title = "Oil change"
  /\ peer.formData.date # formData.date
  /\ EditedFields(store[1]) = EditedFields(RecordDataOf(peer.formData, peer.photos))

----------------------------------------------------------------------------
(* Claims about the date loop *)

\* C23: the loop of createRecurringRecords ends for every form that passes
\* handleSubmit's validation, whichever of the four units, whatever the
\* interval, base date and end date: currentDate grows on every iteration,
\* an iteration runs only while it is before the end date, and the
\* function reaches its slice.
C23_LoopTerminates ==
  /\ <>(xpc = "done")
  /\ [][/\ (xpc = "loop" /\ xpc' = "loop") =>
            (currentDate < endDate /\ currentDate' > currentDate)
        /\ (xpc = "loop" /\ xpc' = "done") => currentDate >= endDate]_vars

\* The loop has ended after the 40 iterations of a daily rule.
C23_Witness ==
  /\ xpc = "done" /\ currentDate >= endDate
  /\ formData.recurringType = "daily" /\ formData.recurringInterval = 1
  /\ Len(futureDates) = 40

\* C25: the occurrence dates of one createRecord are strictly increasing,
\* so without duplicates, and none is later than the recurrence end date;
\* this holds of the dates the loop has generated so far and of the slice
\* that is written.
C25_IncreasingWithinEnd ==
  xpc \in {"loop", "done"} =>
    /\ \A k \in 1..Len(futureDates) :
         /\ futureDates[k] <= endDate
         /\ k > 1 => futureDates[k] > futureDates[k - 1]
    /\ \A k \in 1..Len(recordsToCreate) :
         /\ recordsToCreate[k] <= endDate
         /\ k > 1 => recordsToCreate[k] > recordsToCreate[k - 1]

\* Ten occurrences are written of a series whose last date is the end
\* date itself.
C25_Witness ==
  /\ xpc = "done" /\ Len(recordsToCreate) = MaxChildren
  /\ Len(futureDates) > MaxChildren
  /\ futureDates[Len(futureDates)] = endDate
  /\ recordsToCreate[MaxChildren] > recordsToCreate[1]

----------------------------------------------------------------------------
(* Claims about the recurrence interval *)

\* C24: the interval of the form is an integer of at least 1 after every
\* change of the interval field, whatever was typed (nothing, zero, a
\* negative number, letters), so it is at least 1 when handleSubmit reads
\* it, and every recurring record written has an interval of at least 1.
C24_IntervalAtLeastOne ==
  /\ formData.recurringInterval \in Nat /\ formData.recurringInterval >= 1
  /\ "recurringInterval" \in DOMAIN recordData =>
       (recordData.recurringInterval \in Nat /\ recordData.recurringInterval >= 1)
  /\ \A i \in 1..Len(store) :
       "recurringInterval" \in DOMAIN store[i] =>
         (store[i].recurringInterval \in Nat /\ store[i].recurringInterval >= 1)

\* A recurring record written with an interval that was typed into the
\* field, and its two occurrences.
C24_Witness ==
  /\ pc = "done" /\ outcome = "success" /\ Len(store) = 3
  /\ store[1].isRecurring /\ store[1].recurringInterval = 5
  /\ formData.recurringInterval = 5

----------------------------------------------------------------------------
(* Claims about the preview *)

\* C26: the preview agrees with what is persisted: the three dates it
\* shows are the first three occurrence dates that createRecurringRecords
\* computes from the same form, and it shows no date after the recurrence
\* end date.
C26_PreviewMatchesCreated ==
  (view.site = "preview" /\ pc \in {"awaitChild", "done"} /\ RecurringCreated) =>
    /\ Len(futureDates) >= 3
    /\ \A k \in 1..3 :
         /\ view.times[k] = futureDates[k]
         /\ view.shown[k] = ToLocaleDateString(futureDates[k], tz)
         /\ view.times[k] <= endDate

----------------------------------------------------------------------------
(* Claims about the agreement of the read-side pages *)

\* C27: every read-side page classifies a record as MaintenanceCard does:
\* whichever of the card, the history filter, the index counts and the
\* calendar rendered last shows the record with the status that getStatus
\* gives it at the time of the rendering.
C27_ReadSidesAgree ==
  view.site \in {"card", "history", "counts", "calendar"} =>
    ShownAs(GetStatus(store[1], view.at))

----------------------------------------------------------------------------
(* Claims about the create of a form that is not recurring *)

\* C28: handleSubmit of a form without a record whose isRecurring is false
\* issues one store write, the create of the record: the create in flight
\* and the record stored carry the form's fields and no isRecurring flag,
\* recurrence type, interval or end date; when the create resolves,
\* handleSubmit ends without a child write, and at most that one record
\* has been added.
C28_PlainCreateOneWrite ==
  [][(maintenanceRecord = NoRecord /\ ~formData.isRecurring) =>
       /\ (SubmitStep /\ pc' # "idle") =>
            /\ pc' = "awaitCreate"
            /\ DOMAIN recordData' =
                 {"title", "date", "type", "notes", "photos", "rvId"}
            /\ store' = store
       /\ (pc = "awaitCreate" /\ response' # response) =>
            /\ pc' \in {"done", "idle"} /\ ~isSubmitting'
            /\ attempted' = {} /\ recordsToCreate' = <<>> /\ childIdx' = 0
            /\ \/ store' = store /\ response' \in {"errors", "rejected"}
               \/ /\ response' = "data"
                  /\ store' = Append(store, recordData @@ [id |-> Len(store) + 1])
                  /\ DOMAIN store'[Len(store')] \cap
                       ({"isRecurring", "parentRecordId"} \cup RecurrenceFields) = {}
       /\ pc' = "awaitChild" => pc = "awaitChild"
       /\ (pc # "awaitCreate" \/ response' = response) => store' = store]_vars

\* The create of a form whose recurring section was filled in and then
\* switched off: one record, without recurrence fields.
C28_Witness ==
  /\ pc = "done" /\ outcome = "success" /\ response = "data"
  /\ ~formData.isRecurring /\ formData.recurringInterval = 5
  /\ formData.recurringType = "weekly"
  /\ Len(store) = 1 /\ attempted = {}
  /\ DOMAIN store[1] = {"id", "title", "date", "type", "notes", "photos", "rvId"}

----------------------------------------------------------------------------
(* Claims about the submitting flag and the error message *)

Awaiting == pc \in {"awaitCreate", "awaitChild", "awaitUpdate"}

----------------------------------------------------------------------------
(* Claims about the photo list *)

PhotoSet == {photos[i] : i \in 1..Len(photos)}

\* C30: for every interleaving of upload and delete handlers, once all
\* handlers have finished the photo list holds every key that a successful
\* upload stored (and every key it started with) and that no delete has
\* taken off, holds no key whose object was deleted, and has at most 5
\* entries.
C30_PhotoListConsistent ==
  NoneRunning =>
    /\ \A k \in (1..issued) \cup {101, 102} :
         (k \in bucket /\ k \notin removed) => k \in PhotoSet
    /\ PhotoSet \subseteq bucket
    /\ Len(photos) <= MAX_PHOTOS

====
